---- MODULE Spec2Model ----
(***************************************************************************)
(* Reconciliation core of the ship-alerts scraper (playwright_scrape.py):  *)
(* history merge store, canonical event identity, geofence transition      *)
(* detector and the run of main() that ties them to the persisted state.   *)
(***************************************************************************)
EXTENDS Integers, Sequences, FiniteSets, TLC

VARIABLES
    \* ---- merge_items exercised as a pure function
    existing,       \* the log handed to merge_items
    new_items,      \* the new events handed to merge_items (A)
    more_items,     \* a second batch of new events (B)
    cap,            \* the cap handed to merge_items
    merged,         \* merge_items(existing, new_items, cap)
    merged_again,   \* merge_items(merged, new_items, cap)
    merged_ab,      \* merge_items(merged, more_items, cap)
    merged_ba,      \* merge_items(merge_items(existing, more_items, cap), new_items, cap)
    merged_joint,   \* merge_items(existing, new_items + more_items, cap)
    mpc,            \* which of the calls above have been made
    \* ---- the run of main() and what it persists
    state,          \* state dict in memory: canon_seen (guids seen), geo (fence booleans)
    now,            \* datetime.utcnow(), epoch seconds
    trail,          \* position samples processed so far, with what each yielded
    disk,           \* state.json and history/<slug>.json, history/all.json
    pc,             \* where main() stands
    ship_ix,        \* index in ships of the ship the loop is at
    ship_items_new, \* new items of the ship the loop is at
    all_items_new,  \* new items of the run, all ships
    runs,           \* runs of main() completed
    observed,       \* the observations this run has processed, with their outcome
    accepted,       \* raw observations emitted by a run that saved its state
    ships,          \* ships.json
    skip_tba,       \* the SKIP_TBA switches the run is deployed with
    before,         \* what was on disk when the run started
    steps,          \* the steps the run has taken, with how each went
    outcome,        \* how the last run of the script ended
    tba,            \* ship-page rows processed without a time: their (vessel,
                    \* kind, port), and the guids they put in canon_seen
    latest_all,     \* the items of latest-all.xml as the last run built them
    \* ---- the files of the repository as publish_latest_all.py finds them
    files,          \* path -> the invocation that wrote the file last, 0 for none
    \* ---- a second run of main() going on at the same time
    parked,         \* what the run that is not executing holds in memory
    \* ---- scrape.py, the earlier scraper
    legacy,         \* its state dict, its lists of new items, the feeds written
    \* ---- the pure functions called on their own
    calls           \* the calls made so far: arguments, time of call, result

mergeVars == <<existing, new_items, more_items, cap, merged, merged_again,
               merged_ab, merged_ba, merged_joint, mpc>>

geoVars == <<state, now, trail>>

mainVars == <<disk, pc, ship_ix, ship_items_new, all_items_new, runs,
              observed, accepted, ships, skip_tba, before, steps, outcome,
              tba>>

\* the configuration a run is deployed with
confVars == <<ships, skip_tba>>

pureVars == <<calls>>

\* the feeds in docs/ that the model keeps
feedVars == <<latest_all>>

fsVars == <<files>>

otherVars == <<parked>>

legacyVars == <<legacy>>

vars == <<mergeVars, geoVars, mainVars, pureVars, feedVars, fsVars, otherVars, legacyVars>>

\* main() has not run: nothing on disk, nothing observed
MainAtRest ==
    /\ disk = [state |-> [canon_seen |-> {}, geo |-> <<>>], hist |-> <<>>]
    /\ pc = "idle"
    /\ ship_ix = 0
    /\ ship_items_new = <<>>
    /\ all_items_new = <<>>
    /\ runs = 0
    /\ observed = <<>>
    /\ accepted = {}
    /\ ships = <<>>
    /\ skip_tba = <<>>
    /\ before = disk
    /\ steps = <<>>
    /\ outcome = "none"
    /\ tba = [rows |-> {}, guids |-> {}]
    /\ latest_all = <<>>
    /\ files = <<>>
    /\ parked = <<>>
    /\ legacy = <<>>
    /\ calls = <<>>

----------------------------------------------------------------------------
(* Bounds of the model *)

\* longest log handed to merge_items
MaxLog == 2
\* longest list of new events handed to merge_items
MaxNew == 1
\* largest cap handed to merge_items
MaxCap == 2
\* longest list (log or batch) when three lists are merged in different orders
MaxOrderLen == 1

\* eventUtc of an item whose "eventUtc" is missing or is no ISO timestamp
NoIso == -1

Guids == {"g1", "g2", "g3"}
\* eventUtc values of the logs handed to merge_items (epoch seconds)
EvTimes == {NoIso, 10, 20}
\* eventUtc values when three lists are merged in different orders
OrderTimes == {10, 20}

----------------------------------------------------------------------------
(* Helpers *)

Min(a, b) == IF a <= b THEN a ELSE b
Max(a, b) == IF a >= b THEN a ELSE b

SeqsUpTo(S, n) == UNION {[1..k -> S] : k \in 0..n}

Range(s) == {s[i] : i \in 1..Len(s)}

----------------------------------------------------------------------------
(* History merge store *)

\* datetime.fromisoformat(eventUtc).timestamp(), 0.0 when that raises
_event_key(it) == IF it.eventUtc = NoIso THEN 0 ELSE it.eventUtc

\* mutant of DictPut: by_guid.setdefault(guid, it), the first entry wins
DictPutKeepFirst(d, it) ==
    IF \E i \in 1..Len(d) : d[i].guid = it.guid THEN d ELSE Append(d, it)

\* by_guid[it["guid"]] = it on an insertion-ordered dict kept as a sequence:
\* an existing key keeps its position and takes the new value
DictPut(d, it) ==
    IF \E i \in 1..Len(d) : d[i].guid = it.guid
    THEN [i \in 1..Len(d) |-> IF d[i].guid = it.guid THEN it ELSE d[i]]
    ELSE Append(d, it)

RECURSIVE DictPutAll(_, _)
DictPutAll(d, items) ==
    IF items = <<>> THEN d
    ELSE DictPutAll(DictPut(d, Head(items)), Tail(items))

\* mutant of InsertDesc: an unstable sort, it goes before the entries whose
\* key equals its own
InsertDescTiesFirst(s, it) ==
    LET k == Cardinality({i \in 1..Len(s) : _event_key(s[i]) > _event_key(it)})
    IN  SubSeq(s, 1, k) \o <<it>> \o SubSeq(s, k + 1, Len(s))

\* one step of the stable descending sort: it goes after every entry whose
\* key is greater than or equal to its own
InsertDesc(s, it) ==
    LET k == Cardinality({i \in 1..Len(s) : _event_key(s[i]) >= _event_key(it)})
    IN  SubSeq(s, 1, k) \o <<it>> \o SubSeq(s, k + 1, Len(s))

\* mutant of SortedDesc: the dict's values are not sorted
SortedDescNoSort(s) == s

\* sorted(values, key=_event_key, reverse=True): stable, ties keep dict order
RECURSIVE SortedDesc(_)
SortedDesc(s) ==
    IF s = <<>> THEN <<>>
    ELSE InsertDesc(SortedDesc(SubSeq(s, 1, Len(s) - 1)), s[Len(s)])

\* mutant of Prefix: the cap is off by one, lst[:n + 1]
PrefixOffByOne(lst, n) == SubSeq(lst, 1, Min(n + 1, Len(lst)))

\* lst[:n] with Python's slice rules
Prefix(lst, n) ==
    IF n >= 0 THEN SubSeq(lst, 1, Min(n, Len(lst)))
    ELSE SubSeq(lst, 1, Max(Len(lst) + n, 0))

\* mutant of merge_items: the new events are added at the end of the log
\* and the last c entries are kept
merge_items_appended(ex, new, c) ==
    SubSeq(ex \o new, Max(Len(ex \o new) - c, 0) + 1, Len(ex \o new))

merge_items(ex, new, c) ==
    Prefix(SortedDesc(DictPutAll(DictPutAll(<<>>, ex), new)), c)

----------------------------------------------------------------------------
(* Text: a string is a sequence of characters *)

UpperChars == <<"A", "B", "C", "D", "E", "F", "G", "H", "I", "J", "K", "L", "M", "N", "O", "P", "Q", "R", "S", "T", "U", "V", "W", "X", "Y", "Z">>
LowerChars == <<"a", "b", "c", "d", "e", "f", "g", "h", "i", "j", "k", "l", "m", "n", "o", "p", "q", "r", "s", "t", "u", "v", "w", "x", "y", "z">>
DigitChars == <<"0", "1", "2", "3", "4", "5", "6", "7", "8", "9">>

UpperSet == Range(UpperChars)
LowerOf == [c \in UpperSet |->
               LowerChars[CHOOSE i \in 1..Len(UpperChars) : UpperChars[i] = c]]

\* str.lower() on one character
LowerChar(c) == IF c \in UpperSet THEN LowerOf[c] ELSE c

StrLower(t) == [i \in 1..Len(t) |-> LowerChar(t[i])]

AlnumSet == Range(LowerChars) \cup Range(DigitChars)

\* [a-z0-9]
IsAlnum(c) == c \in AlnumSet

\* re.sub(r"[^a-z0-9]+", " ", t): every run of other characters is one space
RECURSIVE SubNonAlnum(_, _)
SubNonAlnum(t, inRun) ==
    IF t = <<>> THEN <<>>
    ELSE IF IsAlnum(Head(t)) THEN <<Head(t)>> \o SubNonAlnum(Tail(t), FALSE)
    ELSE IF inRun THEN SubNonAlnum(Tail(t), TRUE)
    ELSE <<" ">> \o SubNonAlnum(Tail(t), TRUE)

\* str.strip()
RECURSIVE StripLeft(_)
StripLeft(t) ==
    IF t # <<>> /\ Head(t) = " " THEN StripLeft(Tail(t)) ELSE t

RECURSIVE StripRight(_)
StripRight(t) ==
    IF t # <<>> /\ t[Len(t)] = " " THEN StripRight(SubSeq(t, 1, Len(t) - 1)) ELSE t

Strip(t) == StripRight(StripLeft(t))

StartsWith(t, pre) == Len(t) >= Len(pre) /\ SubSeq(t, 1, Len(pre)) = pre

\* str.replace(old, new): the occurrences from the left, not overlapping
RECURSIVE StrReplace(_, _, _)
StrReplace(t, old, new) ==
    IF t = <<>> THEN <<>>
    ELSE IF StartsWith(t, old)
         THEN new \o StrReplace(SubSeq(t, Len(old) + 1, Len(t)), old, new)
         ELSE <<Head(t)>> \o StrReplace(Tail(t), old, new)

\* re.sub(r"\s+", " ", t)
RECURSIVE CollapseSpaces(_)
CollapseSpaces(t) ==
    IF t = <<>> THEN <<>>
    ELSE IF Head(t) = " " /\ Len(t) >= 2 /\ t[2] = " " THEN CollapseSpaces(Tail(t))
    ELSE <<Head(t)>> \o CollapseSpaces(Tail(t))

\* needle in haystack
Contains(t, needle) ==
    \E i \in 0..(Len(t) - Len(needle)) : SubSeq(t, i + 1, i + Len(needle)) = needle

T_Arrived == <<"A", "r", "r", "i", "v", "e", "d">>
T_ARRIVED == <<"A", "R", "R", "I", "V", "E", "D">>
T_Departed == <<"D", "e", "p", "a", "r", "t", "e", "d">>
T_canon == <<"c", "a", "n", "o", "n">>
T_disney_wish == <<"d", "i", "s", "n", "e", "y", "-", "w", "i", "s", "h">>
T_disney_wish_arrived == <<"d", "i", "s", "n", "e", "y", "-", "w", "i", "s", "h", "|", "a", "r", "r", "i", "v", "e", "d">>
T_cape_canaveral == <<"c", "a", "p", "e", " ", "c", "a", "n", "a", "v", "e", "r", "a", "l">>
T_port_canaveral == <<"p", "o", "r", "t", " ", "c", "a", "n", "a", "v", "e", "r", "a", "l">>
T_canaveral == <<"c", "a", "n", "a", "v", "e", "r", "a", "l">>
T_ft_lauderdale == <<"f", "t", " ", "l", "a", "u", "d", "e", "r", "d", "a", "l", "e">>
T_fort_lauderdale == <<"f", "o", "r", "t", " ", "l", "a", "u", "d", "e", "r", "d", "a", "l", "e">>
T_PortCanaveral == <<"P", "o", "r", "t", " ", "C", "a", "n", "a", "v", "e", "r", "a", "l">>
T_PORT_CANAVERAL == <<"P", "O", "R", "T", " ", "C", "A", "N", "A", "V", "E", "R", "A", "L">>
T_PortCanaveralFlorida == <<"P", "o", "r", "t", " ", "C", "a", "n", "a", "v", "e", "r", "a", "l", ",", " ", "F", "l", "o", "r", "i", "d", "a">>
T_CapeCanaveral == <<"C", "a", "p", "e", " ", "C", "a", "n", "a", "v", "e", "r", "a", "l">>
T_Port_Canaveral == <<"P", "o", "r", "t", "-", "C", "a", "n", "a", "v", "e", "r", "a", "l">>
T_PortCanaveralPadded == <<" ", "P", "o", "r", "t", " ", " ", "C", "a", "n", "a", "v", "e", "r", "a", "l", " ">>
T_FtLauderdale == <<"F", "t", ".", " ", "L", "a", "u", "d", "e", "r", "d", "a", "l", "e">>
T_FortLauderdale == <<"F", "o", "r", "t", " ", "L", "a", "u", "d", "e", "r", "d", "a", "l", "e">>
T_DisneysCastawayCay == <<"D", "i", "s", "n", "e", "y", "s", " ", "C", "a", "s", "t", "a", "w", "a", "y", " ", "C", "a", "y">>
T_DISNEYS_CASTAWAY_CAY == <<"D", "I", "S", "N", "E", "Y", "'", "S", " ", " ", "C", "A", "S", "T", "A", "W", "A", "Y", " ", "C", "A", "Y">>
T_CastawayCay == <<"D", "i", "s", "n", "e", "y", "'", "s", " ", "C", "a", "s", "t", "a", "w", "a", "y", " ", "C", "a", "y">>
T_LookoutCay == <<"D", "i", "s", "n", "e", "y", "'", "s", " ", "L", "o", "o", "k", "o", "u", "t", " ", "C", "a", "y", " ", "a", "t", " ", "L", "i", "g", "h", "t", "h", "o", "u", "s", "e", " ", "P", "o", "i", "n", "t">>
T_gorda_cay == <<"g", "o", "r", "d", "a", " ", "c", "a", "y">>
T_castaway_cay == <<"c", "a", "s", "t", "a", "w", "a", "y", " ", "c", "a", "y">>
T_lighthouse_point == <<"l", "i", "g", "h", "t", "h", "o", "u", "s", "e", " ", "p", "o", "i", "n", "t">>
T_lookout_cay == <<"l", "o", "o", "k", "o", "u", "t", " ", "c", "a", "y">>
T_lighthouse_pt == <<"l", "i", "g", "h", "t", "h", "o", "u", "s", "e", " ", "p", "t">>

----------------------------------------------------------------------------
(* Time: an instant is epoch seconds; a year has 365 days *)

SecondsPerYear == 365 * 24 * 60 * 60

YearStart(y) == (y - 1970) * SecondsPerYear
\* dt.year
YearOf(t) == 1970 + (t \div SecondsPerYear)
\* month, day, hour, minute, second of dt: the seconds since the year began
TimeOfYear(t) == t % SecondsPerYear
\* mutant of FloorMinute: the seconds are kept
KeepSeconds(t) == t

\* dt.replace(second=0, microsecond=0)
FloorMinute(t) == t - (t % 60)

\* no value: None, or a text that is no timestamp
None == NoIso

SecondsPerDay == 24 * 60 * 60

\* the days of the months of a year that is no leap year
DaysInMonthCommon == <<31, 28, 31, 30, 31, 30, 31, 31, 30, 31, 30, 31>>

IsLeap(y) == (y % 4 = 0 /\ y % 100 # 0) \/ y % 400 = 0

DaysInMonth(y, m) == IF m = 2 /\ IsLeap(y) THEN 29 ELSE DaysInMonthCommon[m]

RECURSIVE DaysInMonths(_)
DaysInMonths(n) == IF n = 0 THEN 0 ELSE DaysInMonths(n - 1) + DaysInMonthCommon[n]

\* the days of a common year that lie before its m-th month
DaysBeforeMonth == [m \in 1..12 |-> DaysInMonths(m - 1)]
DaysBefore(m) == DaysBeforeMonth[m]

\* the month in which the d-th day (from 0) of a common year lies
MonthOfDay(d) ==
    CHOOSE m \in 1..12 : DaysBefore(m) <= d /\ d < DaysBefore(m) + DaysInMonthCommon[m]

\* a time text as the pages print it: month, day, time of day (sod, in
\* seconds), no year; fmt says which strptime format its shape is ("hm":
\* "%b %d, %H:%M", "ampm": "%b %d, %I:%M %p", "hms": "%b %d, %H:%M:%S"),
\* "empty" is "" and "junk" has the shape of none
DateText(fmt, mon, day, sod) == [fmt |-> fmt, mon |-> mon, day |-> day, sod |-> sod]

\* the text that prints the instant tod seconds after a common year began
TimeText(fmt, tod) ==
    LET d == tod \div SecondsPerDay
    IN  DateText(fmt, MonthOfDay(d), (d - DaysBefore(MonthOfDay(d))) + 1,
                 tod % SecondsPerDay)
EmptyText == TimeText("empty", 0)

\* the seconds between the beginning of a common year and the text's time
TextTimeOfYear(raw) ==
    (((DaysBefore(raw.mon) + raw.day) - 1) * SecondsPerDay) + raw.sod

\* datetime.strptime(raw, fmt) over the formats tried: with no year in the
\* format the date is built in the year 1900, and a day that the month
\* does not have in 1900 raises ValueError, as a text of no format does
StrptimeRaises(raw, fmts) ==
    \/ raw.fmt \notin fmts
    \/ raw.day > DaysInMonth(1900, raw.mon)

\* now_utc.strftime("%b %d, %H:%M")
StrftimeHM(t) == TimeText("hm", FloorMinute(TimeOfYear(t)))

\* mutant of _parse_vf_time_utc: a text that is no time is given the time
\* of the call
_parse_vf_time_utc_or_now(raw_time, nowt) ==
    IF StrptimeRaises(raw_time, {"hm", "ampm", "hms"})
    THEN nowt
    ELSE YearStart(YearOf(nowt)) + TextTimeOfYear(raw_time)

\* the text's month, day and time in the year that is current when called
_parse_vf_time_utc(raw_time, nowt) ==
    IF StrptimeRaises(raw_time, {"hm", "ampm", "hms"})
    THEN None
    ELSE YearStart(YearOf(nowt)) + TextTimeOfYear(raw_time)

\* (est_str, local_str, iso): the two display strings are kept only as
\* present or absent
format_times_for_notification(port_name, port_link, when_raw, nowt) ==
    LET dt_utc == _parse_vf_time_utc(when_raw, nowt)
    IN  IF dt_utc = None
        THEN [est |-> FALSE, local |-> FALSE, iso |-> None]
        ELSE [est |-> TRUE, local |-> TRUE, iso |-> dt_utc]

----------------------------------------------------------------------------
(* Canonical event identity *)

\* mutant of _normalize_port_name: no lower-casing
_normalize_port_name_cased(name) ==
    CollapseSpaces(
        StrReplace(
            StrReplace(Strip(SubNonAlnum(name, FALSE)),
                       T_cape_canaveral, T_port_canaveral),
            T_ft_lauderdale, T_fort_lauderdale))

NormalizeText(name) ==
    CollapseSpaces(
        StrReplace(
            StrReplace(Strip(SubNonAlnum(StrLower(name), FALSE)),
                       T_cape_canaveral, T_port_canaveral),
            T_ft_lauderdale, T_fort_lauderdale))

\* the port texts the pages and the fences carry, normalized once
PortTexts == {T_PortCanaveral, T_PORT_CANAVERAL, T_PortCanaveralFlorida,
              T_CastawayCay, T_LookoutCay}
NormalizedPortText == [t \in PortTexts |-> NormalizeText(t)]

_normalize_port_name(name) ==
    IF name \in PortTexts THEN NormalizedPortText[name] ELSE NormalizeText(name)

\* sha1 of the key string, taken as injective: the guid is the key itself
make_id(key) == key

\* event_iso that is no ISO timestamp falls back to utcnow()
_canonical_guid(slug, verb, port, event_iso, nowt) ==
    LET dt == IF event_iso = NoIso THEN nowt ELSE event_iso
    IN  make_id(<<"canon", slug, StrLower(verb), _normalize_port_name(port),
                  FloorMinute(dt)>>)

----------------------------------------------------------------------------
(* merge_items as a pure function: inputs drawn, calls applied in turn *)

MergeItems == [guid : Guids, eventUtc : EvTimes]
OrderItems == [guid : Guids, eventUtc : OrderTimes]

NoResults ==
    /\ merged = <<>>
    /\ merged_again = <<>>
    /\ merged_ab = <<>>
    /\ merged_ba = <<>>
    /\ merged_joint = <<>>
    /\ mpc = "input"

InitMerge ==
    /\ existing \in SeqsUpTo(MergeItems, MaxLog)
    /\ new_items \in SeqsUpTo(MergeItems, MaxNew)
    /\ more_items = <<>>
    /\ cap \in 0..MaxCap
    /\ NoResults
    /\ state = [canon_seen |-> {}, geo |-> <<>>]
    /\ now = 0
    /\ trail = <<>>
    /\ MainAtRest

InitOrder ==
    /\ existing \in SeqsUpTo(OrderItems, MaxOrderLen)
    /\ new_items \in SeqsUpTo(OrderItems, MaxOrderLen)
    /\ more_items \in SeqsUpTo(OrderItems, MaxOrderLen)
    /\ cap \in 0..MaxCap
    /\ NoResults
    /\ state = [canon_seen |-> {}, geo |-> <<>>]
    /\ now = 0
    /\ trail = <<>>
    /\ MainAtRest

\* merge_items(L, A, cap)
MergeNew ==
    /\ mpc = "input"
    /\ merged' = merge_items(existing, new_items, cap)
    /\ mpc' = "merged"
    /\ UNCHANGED <<existing, new_items, more_items, cap, merged_again,
                   merged_ab, merged_ba, merged_joint>>
    /\ UNCHANGED <<geoVars, mainVars, pureVars, feedVars, fsVars, otherVars, legacyVars>>

\* merge_items(merge_items(L, A, cap), A, cap)
MergeAgain ==
    /\ mpc = "merged"
    /\ merged_again' = merge_items(merged, new_items, cap)
    /\ mpc' = "again"
    /\ UNCHANGED <<existing, new_items, more_items, cap, merged,
                   merged_ab, merged_ba, merged_joint>>
    /\ UNCHANGED <<geoVars, mainVars, pureVars, feedVars, fsVars, otherVars, legacyVars>>

\* merge_items(merge_items(L, A, cap), B, cap)
MergeMore ==
    /\ mpc = "merged"
    /\ merged_ab' = merge_items(merged, more_items, cap)
    /\ mpc' = "ab"
    /\ UNCHANGED <<existing, new_items, more_items, cap, merged, merged_again,
                   merged_ba, merged_joint>>
    /\ UNCHANGED <<geoVars, mainVars, pureVars, feedVars, fsVars, otherVars, legacyVars>>

\* merge_items(merge_items(L, B, cap), A, cap)
MergeSwapped ==
    /\ mpc = "ab"
    /\ merged_ba' = merge_items(merge_items(existing, more_items, cap), new_items, cap)
    /\ mpc' = "ba"
    /\ UNCHANGED <<existing, new_items, more_items, cap, merged, merged_again,
                   merged_ab, merged_joint>>
    /\ UNCHANGED <<geoVars, mainVars, pureVars, feedVars, fsVars, otherVars, legacyVars>>

\* merge_items(L, A + B, cap)
MergeJoint ==
    /\ mpc = "ba"
    /\ merged_joint' = merge_items(existing, new_items \o more_items, cap)
    /\ mpc' = "joint"
    /\ UNCHANGED <<existing, new_items, more_items, cap, merged, merged_again,
                   merged_ab, merged_ba>>
    /\ UNCHANGED <<geoVars, mainVars, pureVars, feedVars, fsVars, otherVars, legacyVars>>

NextMerge == MergeNew \/ MergeAgain

SpecMerge == InitMerge /\ [][NextMerge]_vars

NextOrder == MergeNew \/ MergeMore \/ MergeSwapped \/ MergeJoint

SpecOrder == InitOrder /\ [][NextOrder]_vars

----------------------------------------------------------------------------
(* Geofence transition detector *)

\* the fences in the order of the dict; radius in km
SPECIAL_GEOFENCES == <<
    [name |-> "Disney's Castaway Cay", text |-> T_CastawayCay,
     aliases |-> {T_gorda_cay, T_castaway_cay}, radius_km |-> 4],
    [name |-> "Disney's Lookout Cay at Lighthouse Point", text |-> T_LookoutCay,
     aliases |-> {T_lighthouse_point, T_lookout_cay, T_lighthouse_pt}, radius_km |-> 5],
    [name |-> "Port Canaveral, Florida", text |-> T_PortCanaveralFlorida,
     aliases |-> {T_port_canaveral, T_cape_canaveral, T_canaveral}, radius_km |-> 6] >>

FenceNames == {SPECIAL_GEOFENCES[i].name : i \in 1..Len(SPECIAL_GEOFENCES)}

Fence(name) ==
    SPECIAL_GEOFENCES[CHOOSE i \in 1..Len(SPECIAL_GEOFENCES) :
                          SPECIAL_GEOFENCES[i].name = name]

\* coords is None
NoCoords == "None"

\* the coordinates a position sample can carry
Places == {"canaveral_berth", "canaveral_edge", "castaway_pier", "open_sea"}

\* haversine_km(coords, center), to the km: the great-circle distance of each
\* place to the three fence centers
haversine_km(coords, fence_name) ==
    CASE coords = "canaveral_berth" ->
           (CASE fence_name = "Port Canaveral, Florida" -> 2
              [] fence_name = "Disney's Castaway Cay" -> 398
              [] OTHER -> 585)
      [] coords = "canaveral_edge" ->
           (CASE fence_name = "Port Canaveral, Florida" -> 6
              [] fence_name = "Disney's Castaway Cay" -> 395
              [] OTHER -> 582)
      [] coords = "castaway_pier" ->
           (CASE fence_name = "Port Canaveral, Florida" -> 399
              [] fence_name = "Disney's Castaway Cay" -> 0
              [] OTHER -> 188)
      [] OTHER ->
           (CASE fence_name = "Port Canaveral, Florida" -> 224
              [] fence_name = "Disney's Castaway Cay" -> 177
              [] OTHER -> 363)

\* mutant of Inside: a position on the boundary counts as outside
InsideStrict(coords, fence_name) ==
    haversine_km(coords, fence_name) < Fence(fence_name).radius_km

\* inside = dist <= radius
Inside(coords, fence_name) ==
    haversine_km(coords, fence_name) <= Fence(fence_name).radius_km

EmptyMap == [k \in {} |-> TRUE]

\* m.get(k, {}) for a dict of dicts
GetMap(m, k) == IF k \in DOMAIN m THEN m[k] ELSE EmptyMap

\* m[k] = v
Put(m, k, v) == [x \in DOMAIN m \cup {k} |-> IF x = k THEN v ELSE m[x]]

\* mutant of FenceVerb: an arrival for every sample inside a fence seen
\* before
FenceVerbWhileInside(geo_state, key, inside) ==
    IF key \notin DOMAIN geo_state THEN "none"
    ELSE IF inside THEN "Arrived"
    ELSE IF geo_state[key] THEN "Departed"
    ELSE "none"

\* mutant of FenceVerb: no baseline, a fence never seen counts as outside
FenceVerbNoBaseline(geo_state, key, inside) ==
    LET prev == IF key \in DOMAIN geo_state THEN geo_state[key] ELSE FALSE
    IN  IF inside /\ ~prev THEN "Arrived"
        ELSE IF ~inside /\ prev THEN "Departed"
        ELSE "none"

\* mutant of FenceVerb: the branch for leaving the fence is missing
FenceVerbArrivalsOnly(geo_state, key, inside) ==
    IF key \notin DOMAIN geo_state THEN "none"
    ELSE IF inside /\ ~geo_state[key] THEN "Arrived"
    ELSE "none"

\* what one fence yields: nothing when prev is None (the sample only seeds
\* the boolean), Arrived on false -> true, Departed on true -> false
FenceVerb(geo_state, key, inside) ==
    IF key \notin DOMAIN geo_state THEN "none"
    ELSE IF inside /\ ~geo_state[key] THEN "Arrived"
    ELSE IF ~inside /\ geo_state[key] THEN "Departed"
    ELSE "none"

VerbText(verb) == IF verb = "Arrived" THEN T_Arrived ELSE T_Departed

\* the item built for a crossing: the time is utcnow() printed to the minute
\* and parsed back; title keeps the ship, the verb and the port of the title
GeoItem(ship_name, slug, verb, fence_name, nowt) ==
    LET when_raw == StrftimeHM(nowt)
        ft == format_times_for_notification(Fence(fence_name).text, <<>>, when_raw, nowt)
        event_utc == IF ft.iso = None THEN nowt ELSE ft.iso
    IN  [title |-> <<ship_name, verb, Fence(fence_name).text>>,
         guid |-> _canonical_guid(slug, VerbText(verb), Fence(fence_name).text,
                                  event_utc, nowt),
         eventUtc |-> event_utc,
         shipSlug |-> slug,
         source |-> "geo"]

\* the loop over the fences from the k-th on: [geo_state, items]
RECURSIVE GeoLoop(_, _, _, _, _, _, _)
GeoLoop(ship_name, slug, coords, nowt, geo_state, items, k) ==
    IF k > Len(SPECIAL_GEOFENCES) THEN [geo_state |-> geo_state, items |-> items]
    ELSE LET key == SPECIAL_GEOFENCES[k].name
             inside == Inside(coords, key)
             verb == FenceVerb(geo_state, key, inside)
         IN  GeoLoop(ship_name, slug, coords, nowt,
                     Put(geo_state, key, inside),
                     IF verb = "none" THEN items
                     ELSE Append(items, GeoItem(ship_name, slug, verb, key, nowt)),
                     k + 1)

\* mutant of geofence_events_from_coords: one set of fence booleans for
\* the whole fleet
geofence_events_from_coords_shared(ship_name, slug, coords, state_seen, nowt) ==
    IF coords = NoCoords THEN [items |-> <<>>, state_seen |-> state_seen]
    ELSE LET r == GeoLoop(ship_name, slug, coords, nowt,
                          GetMap(state_seen.geo, "fleet"), <<>>, 1)
         IN  [items |-> r.items,
              state_seen |-> [state_seen EXCEPT !.geo = Put(@, "fleet", r.geo_state)]]

\* [items, state_seen]: state_seen["geo"][slug] is created and updated in
\* place; nothing is touched when coords is None
geofence_events_from_coords(ship_name, slug, coords, state_seen, nowt) ==
    IF coords = NoCoords THEN [items |-> <<>>, state_seen |-> state_seen]
    ELSE LET r == GeoLoop(ship_name, slug, coords, nowt,
                          GetMap(state_seen.geo, slug), <<>>, 1)
         IN  [items |-> r.items,
              state_seen |-> [state_seen EXCEPT !.geo = Put(@, slug, r.geo_state)]]

\* mutant of GateItems: the guids of the items appended are not marked
GateItemsUnmarked(canon_seen, kept, items) ==
    [canon_seen |-> canon_seen,
     items |-> kept \o SelectSeq(items, LAMBDA it : it.guid \notin canon_seen)]

\* mutant of GateItems: every item is appended, seen or not
GateItemsUngated(canon_seen, kept, items) ==
    [canon_seen |-> canon_seen \cup {items[i].guid : i \in 1..Len(items)},
     items |-> kept \o items]

\* canon_seen gate of main: an item whose guid is seen is skipped, the
\* others are appended and their guids marked: [canon_seen, items]
RECURSIVE GateItems(_, _, _)
GateItems(canon_seen, kept, items) ==
    IF items = <<>> THEN [canon_seen |-> canon_seen, items |-> kept]
    ELSE IF Head(items).guid \in canon_seen
         THEN GateItems(canon_seen, kept, Tail(items))
         ELSE GateItems(canon_seen \cup {Head(items).guid},
                        Append(kept, Head(items)), Tail(items))

\* mutant of GeofenceStage: without coords the vessel's fence booleans are
\* forgotten
GeofenceStageForgets(ship, coords, st, nowt) ==
    IF coords = NoCoords
    THEN [state |-> [st EXCEPT !.geo = Put(@, ship.slug, EmptyMap)],
          items |-> <<>>, returned |-> <<>>]
    ELSE LET r == geofence_events_from_coords(ship.name, ship.slug, coords, st, nowt)
             g == GateItems(r.state_seen.canon_seen, <<>>, r.items)
         IN  [state |-> [r.state_seen EXCEPT !.canon_seen = g.canon_seen],
              items |-> g.items,
              returned |-> r.items]

\* step 3 of main for one ship: [state, items]; without coords only a warning
GeofenceStage(ship, coords, st, nowt) ==
    IF coords = NoCoords THEN [state |-> st, items |-> <<>>, returned |-> <<>>]
    ELSE LET r == geofence_events_from_coords(ship.name, ship.slug, coords, st, nowt)
             g == GateItems(r.state_seen.canon_seen, <<>>, r.items)
         IN  [state |-> [r.state_seen EXCEPT !.canon_seen = g.canon_seen],
              items |-> g.items,
              returned |-> r.items]

----------------------------------------------------------------------------
(* The geofence step of main, sample after sample *)

\* longest run of position samples
MaxSamples == 3

\* ships.json
ShipWish == [name |-> "Disney Wish", slug |-> "disney-wish"]
ShipDream == [name |-> "Disney Dream", slug |-> "disney-dream"]
GeoShips == {ShipWish, ShipDream}

\* 2025-11-07T10:00:00Z, as seconds since the year began
Nov7_1000 == ((310 * 24) + 10) * 60 * 60
T0 == YearStart(2025) + Nov7_1000
\* the instants at which a sample is taken
GeoClock == {T0, T0 + 30, T0 + 60}

EmptyState == [canon_seen |-> {}, geo |-> EmptyMap]

InitGeo ==
    /\ existing = <<>>
    /\ new_items = <<>>
    /\ more_items = <<>>
    /\ cap = 0
    /\ NoResults
    /\ state = EmptyState
    /\ now = T0
    /\ trail = <<>>
    /\ MainAtRest

\* one run's geofence step for one ship; the clock never runs backwards
GeoSample(ship, coords, t) ==
    /\ Len(trail) < MaxSamples
    /\ t >= now
    /\ now' = t
    /\ LET r == GeofenceStage(ship, coords, state, t)
       IN  /\ state' = r.state
           /\ trail' = Append(trail,
                  [slug |-> ship.slug, coords |-> coords, at |-> t,
                   seen_before |-> state.canon_seen,
                   before |-> GetMap(state.geo, ship.slug),
                   after |-> GetMap(r.state.geo, ship.slug),
                   geo_before |-> state.geo,
                   geo_after |-> r.state.geo,
                   returned |-> r.returned,
                   emitted |-> r.items])
    /\ UNCHANGED <<mergeVars, mainVars, pureVars, feedVars, fsVars, otherVars, legacyVars>>

NextGeo ==
    \E ship \in GeoShips, coords \in Places \cup {NoCoords}, t \in GeoClock :
        GeoSample(ship, coords, t)

SpecGeo == InitGeo /\ [][NextGeo]_vars

----------------------------------------------------------------------------
(* main(): one run after another over state.json and the history logs *)

\* runs of main() in a behaviour
MaxRuns == 2
\* rows a ship page shows, rows the port pages show for a ship
MaxPageRows == 1
MaxPortRows == 1
\* the caps of the history logs, scaled down so that eviction happens
PER_SHIP_CAP == 1
ALL_CAP == 2

SKIP_TBA == [Arrived |-> TRUE, Departed |-> TRUE]

\* ships.json with one ship, with two ships
OneShip == <<ShipWish>>
TwoShips == <<ShipWish, ShipDream>>

\* the history files: history/<slug>.json and history/all.json
HistKeys(fleet) == {fleet[i].slug : i \in 1..Len(fleet)} \cup {"all"}

\* Dec 31, 23:50:00, as seconds since the year began
Dec31_2350 == ((((364 * 24) + 23) * 60) + 50) * 60

\* the instants at which a run starts: two on 2025-12-31, one on 2026-01-01
MainClock == {YearStart(2025) + Dec31_2350 - 600,
              YearStart(2025) + Dec31_2350 + 30,
              YearStart(2026) + 300}

\* the rows a ship page can show: a UTC time text with seconds, or none
PageTimes == {TimeText("hms", Dec31_2350 + 30), EmptyText}
PageRows == [event : {"Arrived", "Departed"},
             port : {T_PortCanaveral, T_PORT_CANAVERAL},
             when_raw : PageTimes]

\* utcoffset of a zone; the dates of the model lie in winter
UtcOffset(tz) == IF tz \in {"America/New_York", "America/Nassau"}
                 THEN 0 - (5 * 60 * 60) ELSE 0

\* the port pages tried are /ports/US...: TZ_BY_PORT_PREFIX["US"]
_port_tz_from_url(port_url, fallback_name) == "America/New_York"

\* the lines a port page can show for the ship: local time, to the minute,
\* 30 seconds before and 30 seconds after the time of the ship page
PortTimes == {TimeText("hm", Dec31_2350 + UtcOffset("America/New_York")),
              TimeText("hm", Dec31_2350 + 60 + UtcOffset("America/New_York"))}
PortLines == [tab : {"arrivals", "departures"},
              label : {T_PortCanaveral, T_PORT_CANAVERAL},
              lt : PortTimes]

\* (est_str, local_str, iso_utc) of a local time text; "%b %d, %H:%M:%S"
\* is not among the formats tried
_parse_port_time_lt(raw_time, tz, nowt) ==
    IF StrptimeRaises(raw_time, {"hm", "ampm"})
    THEN [est |-> FALSE, local |-> FALSE, iso |-> None]
    ELSE [est |-> TRUE, local |-> TRUE,
          iso |-> (YearStart(YearOf(nowt)) + TextTimeOfYear(raw_time)) - UtcOffset(tz)]

\* the rows of one port page for the ship; a line without a time is skipped
RECURSIVE _parse_port_table_for_ship(_, _)
_parse_port_table_for_ship(lines, nowt) ==
    IF lines = <<>> THEN <<>>
    ELSE LET ln == Head(lines)
             ft == _parse_port_time_lt(ln.lt, _port_tz_from_url(<<>>, ln.label), nowt)
             rest == _parse_port_table_for_ship(Tail(lines), nowt)
         IN  IF ft.iso = None THEN rest
             ELSE <<[event |-> IF ln.tab = "arrivals" THEN "Arrived" ELSE "Departed",
                     port |-> ln.label,
                     lt |-> ln.lt,
                     _iso |-> ft.iso]>> \o rest

\* rows of all pages tried, one per (event, port, _iso)
RECURSIVE DedupPortRows(_, _, _)
DedupPortRows(rows, out, seen) ==
    IF rows = <<>> THEN out
    ELSE LET r == Head(rows)
             key == <<r.event, r.port, r._iso>>
         IN  IF key \in seen THEN DedupPortRows(Tail(rows), out, seen)
             ELSE DedupPortRows(Tail(rows), Append(out, r), seen \cup {key})

_fetch_port_fallback_events(lines, nowt) ==
    DedupPortRows(_parse_port_table_for_ship(lines, nowt), <<>>, {})

\* no guid: the row was dropped before one was computed
NoGuid == <<>>

\* an observation as the ghost log keeps it
Observation(source, slug, event, port, when_raw, iso, guid, was_seen, emitted) ==
    [source |-> source, slug |-> slug, event |-> event, port |-> port,
     when_raw |-> when_raw, iso |-> iso, guid |-> guid,
     was_seen |-> was_seen, emitted |-> emitted]

\* the raw observation: vessel, event kind, port text, raw time text
RawOf(o) == [slug |-> o.slug, event |-> o.event, port |-> o.port,
             when_raw |-> o.when_raw]

\* mutant of RowDropped: a row is dropped only where the switch says so
RowDroppedBySwitchOnly(ft, verb, switches) ==
    ft.iso = None /\ switches[verb]

\* the three guards of step 1a: the SKIP_TBA switch, no est_str to build a
\* title from, no event_iso
RowDropped(ft, verb, switches) ==
    \/ (ft.iso = None /\ switches[verb])
    \/ ~ft.est
    \/ ft.iso = None

\* a time text that none of the strptime formats matches: empty, or junk
IndefiniteText(raw) == raw.fmt \notin {"hm", "ampm", "hms"}

\* the event an observation is about: vessel, event kind, port text
EventOf(o) == [slug |-> o.slug, event |-> o.event, port |-> o.port]

\* a step of the run as the ghost log keeps it
Step(stage, slug, result) == [stage |-> stage, slug |-> slug, result |-> result]

\* step 1a of main for the rows of one ship page; acc is
\* [canon_seen, items, observed]
RECURSIVE PageLoop(_, _, _, _)
PageLoop(ship, rows, acc, nowt) ==
    IF rows = <<>> THEN acc
    ELSE LET r == Head(rows)
             ft == format_times_for_notification(r.port, <<>>, r.when_raw, nowt)
             verb == IF r.event = "Arrived" THEN "Arrived" ELSE "Departed"
             dropped == RowDropped(ft, verb, skip_tba)
             guid == IF dropped THEN NoGuid
                     ELSE _canonical_guid(ship.slug, VerbText(verb), r.port, ft.iso, nowt)
             was_seen == guid \in acc.canon_seen
             emit == ~dropped /\ ~was_seen
             item == [title |-> <<ship.name, verb, r.port>>,
                      guid |-> guid,
                      eventUtc |-> ft.iso,
                      shipSlug |-> ship.slug,
                      source |-> "vf_ship"]
         IN  PageLoop(ship, Tail(rows),
                 [canon_seen |-> IF emit THEN acc.canon_seen \cup {guid}
                                 ELSE acc.canon_seen,
                  items |-> IF emit THEN Append(acc.items, item) ELSE acc.items,
                  observed |-> Append(acc.observed,
                      Observation("vf_ship", ship.slug, verb, r.port, r.when_raw,
                                  ft.iso, guid, was_seen, emit))],
                 nowt)

\* step 2 of main for the rows the port pages gave
RECURSIVE PortLoop(_, _, _, _)
PortLoop(ship, port_rows, acc, nowt) ==
    IF port_rows = <<>> THEN acc
    ELSE LET r == Head(port_rows)
             verb == r.event
             guid == _canonical_guid(ship.slug, VerbText(verb), r.port, r._iso, nowt)
             was_seen == guid \in acc.canon_seen
             item == [title |-> <<ship.name, verb, r.port>>,
                      guid |-> guid,
                      eventUtc |-> r._iso,
                      shipSlug |-> ship.slug,
                      source |-> "vf_port"]
         IN  PortLoop(ship, Tail(port_rows),
                 [canon_seen |-> acc.canon_seen \cup {guid},
                  items |-> IF was_seen THEN acc.items ELSE Append(acc.items, item),
                  observed |-> Append(acc.observed,
                      Observation("vf_port", ship.slug, verb, r.port, r.lt,
                                  r._iso, guid, was_seen, ~was_seen))],
                 nowt)

\* what the ghost log keeps of the items the geofence step returned
GeoObserved(returned, seen_before, emitted, nowt) ==
    [i \in 1..Len(returned) |->
        Observation("geo", returned[i].shipSlug, returned[i].title[2],
                    returned[i].title[3], StrftimeHM(nowt), returned[i].eventUtc,
                    returned[i].guid, returned[i].guid \in seen_before,
                    \E j \in 1..Len(emitted) : emitted[j] = returned[i])]

\* before the first run: no state.json, empty history logs
InitRuns(fleet) ==
    /\ existing = <<>>
    /\ new_items = <<>>
    /\ more_items = <<>>
    /\ cap = 0
    /\ NoResults
    /\ state = EmptyState
    /\ now = YearStart(2025) + Dec31_2350 - 600
    /\ trail = <<>>
    /\ disk = [state |-> EmptyState, hist |-> [k \in HistKeys(fleet) |-> <<>>]]
    /\ pc = "idle"
    /\ ship_ix = 0
    /\ ship_items_new = <<>>
    /\ all_items_new = <<>>
    /\ runs = 0
    /\ observed = <<>>
    /\ accepted = {}
    /\ ships = fleet
    /\ before = disk
    /\ steps = <<>>
    /\ outcome = "none"
    /\ tba = [rows |-> {}, guids |-> {}]
    /\ latest_all = <<>>
    /\ files = <<>>
    /\ parked = <<>>
    /\ legacy = <<>>
    /\ calls = <<>>

InitMain ==
    /\ InitRuns(OneShip)
    /\ skip_tba = SKIP_TBA

\* main() starts and load_json gives `loaded`; the clock never runs
\* backwards, and a run is short enough to read one time throughout
StartStep(t, loaded, result) ==
    /\ pc = "idle"
    /\ runs < MaxRuns
    /\ t >= now
    /\ now' = t
    /\ state' = loaded
    /\ all_items_new' = <<>>
    /\ ship_items_new' = <<>>
    /\ ship_ix' = 1
    /\ observed' = <<>>
    /\ before' = disk
    /\ steps' = <<Step("state_load", "", result)>>
    /\ outcome' = "running"
    /\ pc' = "page"
    /\ UNCHANGED <<pureVars, legacyVars, otherVars, fsVars, feedVars, mergeVars, trail, disk, runs, accepted, confVars, tba>>

\* state.json is read (a file that does not exist reads as the default)
StartRun(t) == StartStep(t, disk.state, "ok")

\* load_json fails on state.json and hands back the default, empty state
StartRunLoadFails(t) == StartStep(t, EmptyState, "error")

\* os.makedirs(DOCS_DIR) raises before anything is read: exit status 1
MainRaises ==
    /\ pc = "idle"
    /\ runs < MaxRuns
    /\ outcome' = "failure"
    /\ before' = disk
    /\ steps' = <<Step("makedirs", "", "error")>>
    /\ observed' = <<>>
    /\ all_items_new' = <<>>
    /\ ship_items_new' = <<>>
    /\ runs' = runs + 1
    /\ UNCHANGED <<pureVars, legacyVars, otherVars, fsVars, feedVars, mergeVars, geoVars, disk, pc, ship_ix, accepted, confVars,
                   tba>>

\* 1) the ship page and 1a) the items built from its rows
ShipPageStep(rows, result) ==
    /\ pc = "page"
    /\ LET r == PageLoop(ships[ship_ix], rows,
                    [canon_seen |-> state.canon_seen, items |-> <<>>,
                     observed |-> observed], now)
       IN  /\ state' = [state EXCEPT !.canon_seen = r.canon_seen]
           /\ ship_items_new' = r.items
           /\ all_items_new' = all_items_new \o r.items
           /\ observed' = r.observed
           /\ tba' = LET fresh == {r.observed[k] : k \in
                                     {j \in (Len(observed) + 1)..Len(r.observed) :
                                         IndefiniteText(r.observed[j].when_raw)}}
                     IN  [rows |-> tba.rows \cup {EventOf(o) : o \in fresh},
                          guids |-> tba.guids \cup
                                    {o.guid : o \in {x \in fresh : x.emitted}}]
    /\ steps' = Append(steps, Step("page", ships[ship_ix].slug, result))
    /\ pc' = "port"
    /\ UNCHANGED <<pureVars, legacyVars, otherVars, fsVars, feedVars, mergeVars, now, trail, disk, ship_ix, runs, accepted,
                   confVars, before, outcome>>

ShipPage(rows) == ShipPageStep(rows, IF rows = <<>> THEN "empty" ELSE "rows")

\* mutant of ShipPageFails: the failure of one ship page ends the run
ShipPageAborts ==
    /\ pc = "page"
    /\ steps' = Append(steps, Step("page", ships[ship_ix].slug, "raised"))
    /\ outcome' = "failure"
    /\ observed' = <<>>
    /\ runs' = runs + 1
    /\ pc' = "idle"
    /\ UNCHANGED <<pureVars, legacyVars, otherVars, fsVars, feedVars, mergeVars, geoVars, disk, ship_ix, ship_items_new,
                   all_items_new, accepted, confVars, before, tba>>

\* _vf_events_for_ship raises: rows = []
ShipPageFails == ShipPageStep(<<>>, "error")

\* 2) the port-page fallback
PortFallbackStep(lines, result) ==
    /\ pc = "port"
    /\ LET r == PortLoop(ships[ship_ix], _fetch_port_fallback_events(lines, now),
                    [canon_seen |-> state.canon_seen, items |-> <<>>,
                     observed |-> observed], now)
       IN  /\ state' = [state EXCEPT !.canon_seen = r.canon_seen]
           /\ ship_items_new' = ship_items_new \o r.items
           /\ all_items_new' = all_items_new \o r.items
           /\ observed' = r.observed
    /\ steps' = Append(steps, Step("port", ships[ship_ix].slug, result))
    /\ pc' = "geo"
    /\ UNCHANGED <<pureVars, legacyVars, otherVars, fsVars, feedVars, mergeVars, now, trail, disk, ship_ix, runs, accepted,
                   confVars, before, outcome, tba>>

PortFallback(lines) ==
    PortFallbackStep(lines, IF lines = <<>> THEN "empty" ELSE "rows")

\* the port pages cannot be fetched or parsed: no rows
PortFallbackFails == PortFallbackStep(<<>>, "error")

\* the coordinates CruiseMapper can give in a run
MainPlaces == {"canaveral_berth", "open_sea", NoCoords}

\* 3) the geofence step; `log` is the record of samples kept beside it
GeofenceStepLogged(coords, result, log) ==
    /\ pc = "geo"
    /\ LET r == GeofenceStage(ships[ship_ix], coords, state, now)
       IN  /\ state' = r.state
           /\ ship_items_new' = ship_items_new \o r.items
           /\ all_items_new' = all_items_new \o r.items
           /\ observed' = observed \o
                  GeoObserved(r.returned, state.canon_seen, r.items, now)
    /\ steps' = Append(steps, Step("geo", ships[ship_ix].slug, result))
    /\ pc' = "hist"
    /\ trail' = log
    /\ UNCHANGED <<pureVars, legacyVars, otherVars, fsVars, feedVars, mergeVars, now, disk, ship_ix, runs, accepted,
                   confVars, before, outcome, tba>>

GeofenceStep(coords, result) == GeofenceStepLogged(coords, result, trail)

Geofence(coords) ==
    GeofenceStep(coords, IF coords = NoCoords THEN "empty" ELSE "coords")

\* _cm_fetch_coords raises: geofence_events_from_coords is not called
GeofenceFails == GeofenceStep(NoCoords, "error")

\* mutant of ShipHistoryStep: the ship's history takes the new items of
\* every ship so far
ShipHistoryStepAllItems(read_ok, write_ok) ==
    /\ pc = "hist"
    /\ LET slug == ships[ship_ix].slug
           ship_hist == merge_items(IF read_ok THEN disk.hist[slug] ELSE <<>>,
                                    all_items_new, PER_SHIP_CAP)
       IN  /\ disk' = IF write_ok THEN [disk EXCEPT !.hist[slug] = ship_hist]
                      ELSE disk
           /\ steps' = steps \o
                  <<Step("hist_load", slug, IF read_ok THEN "ok" ELSE "error"),
                    Step("hist_save", slug, IF write_ok THEN "ok" ELSE "error")>>
    /\ IF ship_ix < Len(ships)
       THEN ship_ix' = ship_ix + 1 /\ pc' = "page"
       ELSE ship_ix' = ship_ix /\ pc' = "all"
    /\ UNCHANGED <<pureVars, legacyVars, otherVars, fsVars, feedVars, mergeVars, geoVars, ship_items_new,
                   all_items_new, runs, observed, accepted, confVars, before,
                   outcome, tba>>

\* the per-ship history: load, merge, save; then the next ship.  A read
\* that fails gives [], a write that fails leaves the file as it was.
ShipHistoryStep(read_ok, write_ok) ==
    /\ pc = "hist"
    /\ LET slug == ships[ship_ix].slug
           ship_hist == merge_items(IF read_ok THEN disk.hist[slug] ELSE <<>>,
                                    ship_items_new, PER_SHIP_CAP)
       IN  /\ disk' = IF write_ok THEN [disk EXCEPT !.hist[slug] = ship_hist]
                      ELSE disk
           /\ steps' = steps \o
                  <<Step("hist_load", slug, IF read_ok THEN "ok" ELSE "error"),
                    Step("hist_save", slug, IF write_ok THEN "ok" ELSE "error")>>
    /\ IF ship_ix < Len(ships)
       THEN ship_ix' = ship_ix + 1 /\ pc' = "page"
       ELSE ship_ix' = ship_ix /\ pc' = "all"
    /\ UNCHANGED <<pureVars, legacyVars, otherVars, fsVars, feedVars, mergeVars, geoVars, ship_items_new, all_items_new, runs,
                   observed, accepted, confVars, before, outcome, tba>>

ShipHistory == ShipHistoryStep(TRUE, TRUE)
ShipHistoryReadFails == ShipHistoryStep(FALSE, TRUE)
ShipHistoryWriteFails == ShipHistoryStep(TRUE, FALSE)

\* mutant of latest_by_slug: the last entry of each slug is kept
RECURSIVE latest_by_slug_overwritten(_)
latest_by_slug_overwritten(all_hist) ==
    IF all_hist = <<>> THEN <<>>
    ELSE LET rest == latest_by_slug_overwritten(Tail(all_hist))
         IN  IF \E k \in 1..Len(rest) : rest[k].shipSlug = Head(all_hist).shipSlug
             THEN rest
             ELSE <<Head(all_hist)>> \o rest

\* the loop over all_hist: the first item of each shipSlug, in the order met;
\* every item main builds has a shipSlug, so no slug is inferred from a title
RECURSIVE LatestLoop(_, _)
LatestLoop(all_hist, latest) ==
    IF all_hist = <<>> THEN latest
    ELSE LET it == Head(all_hist)
         IN  LatestLoop(Tail(all_hist),
                 IF \E k \in 1..Len(latest) : latest[k].shipSlug = it.shipSlug
                 THEN latest ELSE Append(latest, it))

\* list(latest_by_slug.values())
latest_by_slug(all_hist) == LatestLoop(all_hist, <<>>)

\* the combined history, and the latest item of each ship
AllHistoryStep(read_ok, write_ok) ==
    /\ pc = "all"
    /\ LET all_hist == merge_items(IF read_ok THEN disk.hist["all"] ELSE <<>>,
                                   all_items_new, ALL_CAP)
       IN  /\ disk' = IF write_ok THEN [disk EXCEPT !.hist["all"] = all_hist]
                      ELSE disk
           /\ steps' = steps \o
                  <<Step("hist_load", "all", IF read_ok THEN "ok" ELSE "error"),
                    Step("hist_save", "all", IF write_ok THEN "ok" ELSE "error")>>
           /\ latest_all' = latest_by_slug(all_hist)
    /\ pc' = "save"
    /\ UNCHANGED <<pureVars, legacyVars, otherVars, fsVars, mergeVars, geoVars, ship_ix, ship_items_new, all_items_new,
                   runs, observed, accepted, confVars, before, outcome, tba>>

AllHistory == AllHistoryStep(TRUE, TRUE)
AllHistoryWriteFails == AllHistoryStep(TRUE, FALSE)

\* after the ship loop, outside every try: the exit of `with
\* sync_playwright()` or os.makedirs(HIST_DIR) of load_history("all")
\* raises, main() raises, the exit status is 1
AllHistoryRaises ==
    /\ pc = "all"
    /\ steps' = Append(steps, Step("hist_load", "all", "raised"))
    /\ outcome' = "failure"
    /\ observed' = <<>>
    /\ runs' = runs + 1
    /\ pc' = "idle"
    /\ UNCHANGED <<pureVars, legacyVars, otherVars, fsVars, feedVars, mergeVars, geoVars, disk, ship_ix, ship_items_new,
                   all_items_new, accepted, confVars, before, tba>>

\* save_json(STATE_PATH, state) and the return of main(): what the run
\* emitted is accepted once the state is saved; save_json prints an error
\* it meets and returns, so main() returns and the exit status is 0
SaveStateStep(write_ok) ==
    /\ pc = "save"
    /\ disk' = IF write_ok THEN [disk EXCEPT !.state = state] ELSE disk
    /\ accepted' = IF write_ok
                   THEN accepted \cup
                        {RawOf(observed[i]) : i \in {j \in 1..Len(observed) :
                             observed[j].emitted /\ observed[j].source # "geo"}}
                   ELSE accepted
    /\ steps' = Append(steps, Step("state_save", "", IF write_ok THEN "ok" ELSE "error"))
    /\ outcome' = "success"
    /\ observed' = <<>>
    /\ runs' = runs + 1
    /\ pc' = "idle"
    /\ UNCHANGED <<pureVars, legacyVars, otherVars, fsVars, feedVars, mergeVars, geoVars, ship_ix, ship_items_new, all_items_new,
                   confVars, before, tba>>

SaveState == SaveStateStep(TRUE)
SaveStateFails == SaveStateStep(FALSE)

NextMain ==
    \/ \E t \in MainClock : StartRun(t)
    \/ \E rows \in SeqsUpTo(PageRows, MaxPageRows) : ShipPage(rows)
    \/ \E lines \in SeqsUpTo(PortLines, MaxPortRows) : PortFallback(lines)
    \/ \E coords \in MainPlaces : Geofence(coords)
    \/ ShipHistory
    \/ AllHistory
    \/ SaveState

SpecMain == InitMain /\ [][NextMain]_vars

----------------------------------------------------------------------------
(* main() under each setting of the SKIP_TBA switches: ship page only *)

\* the settings the two switches can be given
Policies == {[Arrived |-> a, Departed |-> d] : a, d \in BOOLEAN}

\* rows with a time, with no time, with a text that is no time
PolicyTimes == {TimeText("hms", Dec31_2350 + 30), EmptyText, TimeText("junk", 0)}
PolicyRows == [event : {"Arrived", "Departed"},
               port : {T_PortCanaveral},
               when_raw : PolicyTimes]

\* the runs start in the minute of the row's time, or the minute after
PolicyClock == {YearStart(2025) + Dec31_2350 + 30,
                YearStart(2025) + Dec31_2350 + 90}

InitPolicy ==
    /\ InitRuns(OneShip)
    /\ skip_tba \in Policies

NextPolicy ==
    \/ \E t \in PolicyClock : StartRun(t)
    \/ \E rows \in SeqsUpTo(PolicyRows, MaxPageRows) : ShipPage(rows)
    \/ PortFallback(<<>>)
    \/ Geofence(NoCoords)
    \/ ShipHistory
    \/ AllHistory
    \/ SaveState

SpecPolicy == InitPolicy /\ [][NextPolicy]_vars

----------------------------------------------------------------------------
(* main() where the three sources can name one event: the ship page and the
   port page write the port as the fence is named, at the time of the run *)

SourceClock == {YearStart(2025) + Dec31_2350 - 600,
                YearStart(2025) + Dec31_2350 + 30}
SourceRows == [event : {"Arrived", "Departed"},
               port : {T_PortCanaveralFlorida},
               when_raw : {TimeText("hms", Dec31_2350 + 30)}]
SourceLines == [tab : {"arrivals", "departures"},
                label : {T_PortCanaveralFlorida},
                lt : {TimeText("hm", Dec31_2350 + UtcOffset("America/New_York"))}]

InitSources ==
    /\ InitRuns(OneShip)
    /\ skip_tba = SKIP_TBA

NextSources ==
    \/ \E t \in SourceClock : StartRun(t)
    \/ \E rows \in SeqsUpTo(SourceRows, MaxPageRows) : ShipPage(rows)
    \/ \E lines \in SeqsUpTo(SourceLines, MaxPortRows) : PortFallback(lines)
    \/ \E coords \in MainPlaces : Geofence(coords)
    \/ ShipHistory
    \/ AllHistory
    \/ SaveState

SpecSources == InitSources /\ [][NextSources]_vars

----------------------------------------------------------------------------
(* main() for two ships whose pages can fail *)

FleetClock == {YearStart(2025) + Dec31_2350 + 30}
FleetRows == [event : {"Arrived"},
              port : {T_PortCanaveral},
              when_raw : {TimeText("hms", Dec31_2350 + 30)}]
FleetPlaces == {"canaveral_berth", NoCoords}

InitFleet ==
    /\ InitRuns(TwoShips)
    /\ skip_tba = SKIP_TBA

NextFleet ==
    \/ \E t \in FleetClock : StartRun(t)
    \/ \E rows \in SeqsUpTo(FleetRows, MaxPageRows) : ShipPage(rows)
    \/ ShipPageFails
    \/ PortFallback(<<>>)
    \/ PortFallbackFails
    \/ \E coords \in FleetPlaces : Geofence(coords)
    \/ GeofenceFails
    \/ ShipHistory
    \/ AllHistory
    \/ SaveState

SpecFleet == InitFleet /\ [][NextFleet]_vars

----------------------------------------------------------------------------
(* main() with reads and writes that can fail *)

DiskClock == {YearStart(2025) + Dec31_2350 + 30,
              YearStart(2025) + Dec31_2350 + 90}
DiskRows == [event : {"Arrived", "Departed"},
             port : {T_PortCanaveral},
             when_raw : {TimeText("hms", Dec31_2350 + 30)}]
DiskPlaces == {"canaveral_berth", NoCoords}

InitDisk ==
    /\ InitRuns(OneShip)
    /\ skip_tba = SKIP_TBA

NextDisk ==
    \/ \E t \in DiskClock : StartRun(t)
    \/ \E t \in DiskClock : StartRunLoadFails(t)
    \/ MainRaises
    \/ \E rows \in SeqsUpTo(DiskRows, MaxPageRows) : ShipPage(rows)
    \/ PortFallback(<<>>)
    \/ \E coords \in DiskPlaces : Geofence(coords)
    \/ ShipHistory
    \/ ShipHistoryReadFails
    \/ ShipHistoryWriteFails
    \/ AllHistory
    \/ AllHistoryWriteFails
    \/ AllHistoryRaises
    \/ SaveState
    \/ SaveStateFails

SpecDisk == InitDisk /\ [][NextDisk]_vars

----------------------------------------------------------------------------
(* main() for two ships, every source giving events *)

\* runs at 23:40:00 and at 23:50:30 on 2025-12-31
ShipsClock == {YearStart(2025) + Dec31_2350 - 600,
               YearStart(2025) + Dec31_2350 + 30}
ShipsRows == [event : {"Arrived", "Departed"},
              port : {T_PortCanaveral},
              when_raw : {TimeText("hms", Dec31_2350 + 30)}]
ShipsLines == [tab : {"arrivals"},
               label : {T_CastawayCay},
               lt : {TimeText("hm", Dec31_2350 - 1200 + UtcOffset("America/New_York"))}]
ShipsPlaces == {"canaveral_berth", "open_sea"}

InitShips ==
    /\ InitRuns(TwoShips)
    /\ skip_tba = SKIP_TBA

NextShips ==
    \/ \E t \in ShipsClock : StartRun(t)
    \/ \E rows \in SeqsUpTo(ShipsRows, MaxPageRows) : ShipPage(rows)
    \/ \E lines \in SeqsUpTo(ShipsLines, MaxPortRows) : PortFallback(lines)
    \/ \E coords \in ShipsPlaces : Geofence(coords)
    \/ ShipHistory
    \/ AllHistory
    \/ SaveState

SpecShips == InitShips /\ [][NextShips]_vars

----------------------------------------------------------------------------
(* Two runs of main() at the same time, one ship *)

\* what a run of main() holds in memory
Locals ==
    [state |-> state, pc |-> pc, ship_ix |-> ship_ix,
     ship_items_new |-> ship_items_new, all_items_new |-> all_items_new,
     observed |-> observed, before |-> before, steps |-> steps,
     outcome |-> outcome]

\* the other run gets the processor: nothing in main() keeps two runs from
\* going on together, no lock is taken on state.json
Switch ==
    /\ state' = parked.state
    /\ pc' = parked.pc
    /\ ship_ix' = parked.ship_ix
    /\ ship_items_new' = parked.ship_items_new
    /\ all_items_new' = parked.all_items_new
    /\ observed' = parked.observed
    /\ before' = parked.before
    /\ steps' = parked.steps
    /\ outcome' = parked.outcome
    /\ parked' = Locals
    /\ UNCHANGED <<mergeVars, pureVars, feedVars, fsVars, legacyVars, now, trail,
                   disk, runs, accepted, confVars, tba>>

\* the geofence step, the sample noted in the order the runs processed it
GeofenceSample(coords) ==
    GeofenceStepLogged(coords, "coords",
        Append(trail, [slug |-> ships[ship_ix].slug, coords |-> coords,
                       after |-> GetMap(GeofenceStage(ships[ship_ix], coords,
                                            state, now).state.geo,
                                        ships[ship_ix].slug)]))

OverlapClock == {YearStart(2025) + Dec31_2350 + 30}
OverlapRows == [event : {"Arrived", "Departed"},
                port : {T_PortCanaveral},
                when_raw : {TimeText("hms", Dec31_2350 + 30)}]
OverlapPlaces == {"canaveral_berth", "open_sea"}

InitOverlap ==
    /\ existing = <<>>
    /\ new_items = <<>>
    /\ more_items = <<>>
    /\ cap = 0
    /\ NoResults
    /\ state = EmptyState
    /\ now = YearStart(2025) + Dec31_2350 - 600
    /\ trail = <<>>
    /\ disk = [state |-> EmptyState, hist |-> [k \in HistKeys(OneShip) |-> <<>>]]
    /\ pc = "idle"
    /\ ship_ix = 0
    /\ ship_items_new = <<>>
    /\ all_items_new = <<>>
    /\ runs = 0
    /\ observed = <<>>
    /\ accepted = {}
    /\ ships = OneShip
    /\ skip_tba = SKIP_TBA
    /\ before = disk
    /\ steps = <<>>
    /\ outcome = "none"
    /\ tba = [rows |-> {}, guids |-> {}]
    /\ latest_all = <<>>
    /\ calls = <<>>
    /\ files = <<>>
    /\ legacy = <<>>
    /\ parked = Locals

NextOverlap ==
    \/ \E t \in OverlapClock : StartRun(t)
    \/ \E rows \in SeqsUpTo(OverlapRows, MaxPageRows) : ShipPage(rows)
    \/ PortFallback(<<>>)
    \/ \E coords \in OverlapPlaces : GeofenceSample(coords)
    \/ ShipHistory
    \/ AllHistory
    \/ SaveState
    \/ Switch

SpecOverlap == InitOverlap /\ [][NextOverlap]_vars

----------------------------------------------------------------------------
(* publish_latest_all.py: the manual publish *)

\* the invocations of the script one behaviour makes at most
MaxPublishes == 2

\* a path is the sequence of its parts; "/" comes first in an absolute one
REPO_ROOT == <<"/", "repo">>
DOCS_DIR == REPO_ROOT \o <<"docs">>

IsAbs(path) == path # <<>> /\ path[1] = "/"

\* os.path.join(a, b)
PathJoin(a, b) == IF IsAbs(b) THEN b ELSE a \o b

\* the file that open() reaches: ".." steps back to the parent directory
RECURSIVE Resolve(_, _)
Resolve(path, done) ==
    IF path = <<>> THEN done
    ELSE IF Head(path) = ".."
         THEN Resolve(Tail(path),
                      IF Len(done) > 1 THEN SubSeq(done, 1, Len(done) - 1) ELSE done)
         ELSE Resolve(Tail(path), Append(done, Head(path)))

FileAt(path) == Resolve(path, <<>>)

\* the files the scraper keeps: its feeds, state.json, the history logs
RepoFiles ==
    {DOCS_DIR \o <<"latest-all.xml">>, DOCS_DIR \o <<"latest_all.xml">>,
     DOCS_DIR \o <<"latest.xml">>, DOCS_DIR \o <<"all.xml">>,
     REPO_ROOT \o <<"state.json">>,
     REPO_ROOT \o <<"history", "all.json">>,
     REPO_ROOT \o <<"history", "disney-wish.json">>}

\* --filename as given on the command line; the default is latest-all.xml
Filenames ==
    {<<"latest-all.xml">>, <<"latest.xml">>, <<"..", "state.json">>,
     <<"..", "history", "all.json">>, <<"/", "repo", "history", "disney-wish.json">>}

\* --ship, --event, --port, --est, --local, --link, --filename,
\* --also-underscore; argparse admits only the two events
PublishArgs ==
    [ship : {"Disney Wish", "Disney Dream"}, event : {"Arrived", "Departed"},
     port : {"Port Canaveral"}, est_time : {"Nov 07, 05:00 AM EST"},
     local_time : {"", "Nov 07, 05:00 AM EST"}, link : {"#"},
     filename : Filenames, also_underscore : BOOLEAN]

\* the files main opens for writing
PublishTargets(args) ==
    {FileAt(PathJoin(DOCS_DIR, args.filename))} \cup
    (IF args.also_underscore
     THEN {FileAt(PathJoin(DOCS_DIR, <<"latest_all.xml">>))} ELSE {})

\* one invocation of publish_latest_all.main
Publish(args) ==
    /\ Len(calls) < MaxPublishes
    /\ files' = [p \in DOMAIN files |->
                    IF p \in PublishTargets(args) THEN Len(calls) + 1 ELSE files[p]]
    /\ calls' = Append(calls, [fn |-> "publish_latest_all.main", args |-> args,
                               at |-> now, out |-> PublishTargets(args)])
    /\ UNCHANGED <<mergeVars, geoVars, mainVars, feedVars, otherVars, legacyVars>>

InitPublish ==
    /\ existing = <<>>
    /\ new_items = <<>>
    /\ more_items = <<>>
    /\ cap = 0
    /\ NoResults
    /\ state = EmptyState
    /\ now = T0
    /\ trail = <<>>
    /\ disk = [state |-> [canon_seen |-> {}, geo |-> <<>>], hist |-> <<>>]
    /\ pc = "idle"
    /\ ship_ix = 0
    /\ ship_items_new = <<>>
    /\ all_items_new = <<>>
    /\ runs = 0
    /\ observed = <<>>
    /\ accepted = {}
    /\ ships = <<>>
    /\ skip_tba = <<>>
    /\ before = disk
    /\ steps = <<>>
    /\ outcome = "none"
    /\ tba = [rows |-> {}, guids |-> {}]
    /\ latest_all = <<>>
    /\ calls = <<>>
    /\ files = [p \in RepoFiles |-> 0]
    /\ parked = <<>>
    /\ legacy = <<>>

NextPublish == \E args \in PublishArgs : Publish(args)

SpecPublish == InitPublish /\ [][NextPublish]_vars

----------------------------------------------------------------------------
(* scrape.py: the earlier scraper and its feeds *)

\* most rows one ship page shows, runs of scrape.main
MaxLegacyRows == 51
MaxLegacyRuns == 2

\* what parse_port_calls gives for a page showing n port calls with an
\* arrival each: the n-th row carries the n-th arrival time text
LegacyRows(n) ==
    [i \in 1..n |-> [event |-> "Arrival", port |-> "Port Canaveral", when_raw |-> i,
                     detail |-> <<"Port Canaveral", "Arrival (UTC)", i>>]]

\* how many port calls a page can show
LegacyRowCounts == {0, 1, MaxLegacyRows - 1, MaxLegacyRows}

\* the loop over the rows of one ship: a row whose guid is seen is passed
\* over, any other becomes an item and its guid is marked; the guid is the
\* sha1 of slug|event|detail
RECURSIVE LegacyRowLoop(_, _, _, _)
LegacyRowLoop(ship, rows, acc, nowt) ==
    IF rows = <<>> THEN acc
    ELSE LET r == Head(rows)
             guid == make_id(<<ship.slug, r.event, r.detail>>)
             item == [title |-> <<ship.name, r.event, r.port>>,
                      description |-> r.detail, guid |-> guid, pubDate |-> nowt]
         IN  IF guid \in acc.seen
             THEN LegacyRowLoop(ship, Tail(rows), acc, nowt)
             ELSE LegacyRowLoop(ship, Tail(rows),
                      [seen |-> acc.seen \cup {guid},
                       ship_items |-> Append(acc.ship_items, item),
                       all_items |-> Append(acc.all_items, item)], nowt)

\* items[:n]
FirstItems(items, n) == SubSeq(items, 1, Min(n, Len(items)))

\* items[::-1]
Reversed(items) == [i \in 1..Len(items) |-> items[(Len(items) + 1) - i]]

\* build_rss: the items of the feed, in the order given
build_rss(items) == items

LegacyFeeds(fleet) == {fleet[i].slug : i \in 1..Len(fleet)} \cup {"all"}

\* scrape.main has not run: no state.json, no feed in docs/
LegacyAtRest(fleet) ==
    [pc |-> "idle", ix |-> 0, runs |-> 0,
     saved |-> {}, loaded |-> {}, seen |-> {},
     ship_items |-> [k \in LegacyFeeds(fleet) \ {"all"} |-> <<>>],
     all_items |-> <<>>,
     written |-> {},
     docs |-> [k \in LegacyFeeds(fleet) |-> <<>>]]

\* main() starts: ships.json and state.json are read
LegacyStart ==
    /\ legacy.pc = "idle"
    /\ legacy.runs < MaxLegacyRuns
    /\ legacy' = [legacy EXCEPT !.pc = "ships", !.ix = 1,
                                !.loaded = legacy.saved, !.seen = legacy.saved,
                                !.ship_items = [k \in DOMAIN @ |-> <<>>],
                                !.all_items = <<>>, !.written = {}]
    /\ UNCHANGED <<mergeVars, geoVars, mainVars, pureVars, feedVars, fsVars, otherVars>>

\* one ship of the loop: its page is fetched and parsed, its new rows become
\* items, docs/<slug>.xml is written
LegacyShip(rows) ==
    /\ legacy.pc = "ships"
    /\ legacy.ix <= Len(ships)
    /\ LET ship == ships[legacy.ix]
           r == LegacyRowLoop(ship, rows,
                    [seen |-> legacy.seen, ship_items |-> <<>>,
                     all_items |-> legacy.all_items], now)
       IN  legacy' = [legacy EXCEPT !.seen = r.seen,
                                    !.ship_items[ship.slug] = r.ship_items,
                                    !.all_items = r.all_items,
                                    !.docs[ship.slug] = build_rss(FirstItems(r.ship_items, 50)),
                                    !.written = @ \cup {ship.slug},
                                    !.ix = @ + 1]
    /\ UNCHANGED <<mergeVars, geoVars, mainVars, pureVars, feedVars, fsVars, otherVars>>

\* the fetch of the ship's page fails: continue, no feed is written
LegacyFetchFails ==
    /\ legacy.pc = "ships"
    /\ legacy.ix <= Len(ships)
    /\ legacy' = [legacy EXCEPT !.ix = @ + 1]
    /\ UNCHANGED <<mergeVars, geoVars, mainVars, pureVars, feedVars, fsVars, otherVars>>

\* after the loop: docs/all.xml is written, then state.json
LegacyFinish ==
    /\ legacy.pc = "ships"
    /\ legacy.ix > Len(ships)
    /\ legacy' = [legacy EXCEPT !.docs["all"] =
                                    build_rss(FirstItems(Reversed(legacy.all_items), 100)),
                                !.written = @ \cup {"all"},
                                !.saved = legacy.seen,
                                !.runs = @ + 1,
                                !.pc = "idle"]
    /\ UNCHANGED <<mergeVars, geoVars, mainVars, pureVars, feedVars, fsVars, otherVars>>

InitLegacy ==
    /\ existing = <<>>
    /\ new_items = <<>>
    /\ more_items = <<>>
    /\ cap = 0
    /\ NoResults
    /\ state = EmptyState
    /\ now = T0
    /\ trail = <<>>
    /\ disk = [state |-> EmptyState, hist |-> <<>>]
    /\ pc = "idle"
    /\ ship_ix = 0
    /\ ship_items_new = <<>>
    /\ all_items_new = <<>>
    /\ runs = 0
    /\ observed = <<>>
    /\ accepted = {}
    /\ ships = TwoShips
    /\ skip_tba = <<>>
    /\ before = disk
    /\ steps = <<>>
    /\ outcome = "none"
    /\ tba = [rows |-> {}, guids |-> {}]
    /\ latest_all = <<>>
    /\ calls = <<>>
    /\ files = <<>>
    /\ parked = <<>>
    /\ legacy = LegacyAtRest(TwoShips)

NextLegacy ==
    \/ LegacyStart
    \/ \E n \in LegacyRowCounts : LegacyShip(LegacyRows(n))
    \/ LegacyFetchFails
    \/ LegacyFinish

SpecLegacy == InitLegacy /\ [][NextLegacy]_vars

----------------------------------------------------------------------------
(* The pure functions, called in turn on inputs drawn from small sets *)

\* the calls one behaviour makes at most
MaxCalls == 2

\* nothing has been called; the stores and main are at rest
InitCalls == InitGeo

\* one call: its arguments, the time at which it is made, what it returns
Call(fn, args, t, out) ==
    /\ calls' = Append(calls, [fn |-> fn, args |-> args, at |-> t, out |-> out])
    /\ UNCHANGED <<mergeVars, geoVars, mainVars, feedVars, fsVars, otherVars, legacyVars>>

CallsOf(fn) == {i \in 1..Len(calls) : calls[i].fn = fn}

\* 10:00:00 and 23:59:30, as seconds of the day
TenOClock == 10 * 60 * 60
LastMinute == (((23 * 60) + 59) * 60) + 30

\* the dates a text names: Nov 07, Feb 28, Feb 29, Dec 31
TextDates == {<<11, 7>>, <<2, 28>>, <<2, 29>>, <<12, 31>>}

\* texts in the three formats of fmts (seconds only where the format has
\* them), the empty text and a text in none of the formats
TimeTexts ==
    {EmptyText, TimeText("junk", 0)} \cup
    {DateText(f, d[1], d[2], sod) :
        f \in {"hm", "ampm", "hms"}, d \in TextDates,
        sod \in {TenOClock, LastMinute - 30}} \cup
    {DateText("hms", d[1], d[2], LastMinute) : d \in TextDates}

\* calls made in 2025, in the last minute of 2025, and in 2028
TimeClock == {T0, (YearStart(2026) - 60) + 30, YearStart(2028) + Nov7_1000}

ParseTimeCall(raw_time, t) ==
    /\ Len(calls) < MaxCalls
    /\ Call("_parse_vf_time_utc", <<raw_time>>, t, _parse_vf_time_utc(raw_time, t))

InitTime == InitCalls

NextTime == \E raw_time \in TimeTexts, t \in TimeClock : ParseTimeCall(raw_time, t)

SpecTime == InitTime /\ [][NextTime]_vars

----------------------------------------------------------------------------
(* _canonical_guid, called in turn *)

\* the calls of _canonical_guid one behaviour makes at most
MaxGuidCalls == 2

\* event_iso as written: the wall-clock time and the UTC offset of an ISO
\* timestamp, a text that is no timestamp, or None
IsoText(t, off) == [kind |-> "iso", wall |-> t + off, off |-> off]
JunkIso == [kind |-> "junk"]
NoneIso == [kind |-> "none"]

\* datetime.fromisoformat(event_iso).astimezone(timezone.utc); NoIso where
\* fromisoformat raises
IsoInstant(event_iso) ==
    IF event_iso.kind = "iso" THEN event_iso.wall - event_iso.off ELSE NoIso

\* the key that is hashed, written out:
\* f"canon|{slug}|{verb.lower()}|{port}|{dt.isoformat()}", the minute's ISO
\* text being one character
KeyText(key) ==
    T_canon \o <<"|">> \o key[2] \o <<"|">> \o key[3] \o <<"|">> \o key[4]
            \o <<"|", key[5]>>

GuidSlugs == {T_disney_wish, T_disney_wish_arrived}
GuidVerbs == {T_Arrived, T_ARRIVED, T_Departed}
GuidPorts == {T_PortCanaveral, T_PORT_CANAVERAL, T_CastawayCay}
\* 10:00:00Z, 10:00:30Z written five hours behind UTC, 10:01:00Z, and two
\* values that are no timestamp
GuidTimes == {IsoText(T0, 0), IsoText(T0 + 30, -(5 * 60 * 60)), IsoText(T0 + 60, 0),
              JunkIso, NoneIso}
\* the calls are made at 10:00:00Z or a minute later
GuidClock == {T0, T0 + 60}

GuidCall(slug, verb, port, event_iso, t) ==
    /\ Len(calls) < MaxGuidCalls
    /\ Call("_canonical_guid", <<slug, verb, port, event_iso>>, t,
            KeyText(_canonical_guid(slug, verb, port, IsoInstant(event_iso), t)))

InitGuid == InitCalls

NextGuid ==
    \E slug \in GuidSlugs, verb \in GuidVerbs, port \in GuidPorts,
       event_iso \in GuidTimes, t \in GuidClock :
        GuidCall(slug, verb, port, event_iso, t)

SpecGuid == InitGuid /\ [][NextGuid]_vars

----------------------------------------------------------------------------
(* _normalize_port_name, called in turn *)

\* port texts as the pages write them: in other case, with other
\* punctuation, with runs of blanks, under an alias, and the empty text
PortNames ==
    {T_PortCanaveral, T_PORT_CANAVERAL, T_Port_Canaveral, T_PortCanaveralPadded,
     T_CapeCanaveral, T_FtLauderdale, T_FortLauderdale,
     T_CastawayCay, T_DisneysCastawayCay, T_DISNEYS_CASTAWAY_CAY, <<>>}

\* (name or ""): the argument is the text and whether None was passed
NormalizeCall(name) ==
    /\ Len(calls) < MaxCalls
    /\ Call("_normalize_port_name", <<name, FALSE>>, now, _normalize_port_name(name))

NormalizeNoneCall ==
    /\ Len(calls) < MaxCalls
    /\ Call("_normalize_port_name", <<<<>>, TRUE>>, now, _normalize_port_name(<<>>))

InitPort == InitCalls

NextPort ==
    \/ \E name \in PortNames : NormalizeCall(name)
    \/ NormalizeNoneCall

SpecPort == InitPort /\ [][NextPort]_vars

----------------------------------------------------------------------------
(* The display zone of a port *)

\* the zones of the tz database that the two tables name; zoneinfo is
\* importable
TzDatabase ==
    {
        "America/Antigua", "America/Aruba", "America/Bahia_Banderas",
        "America/Bogota", "America/Cancun", "America/Cayman",
        "America/Chicago", "America/Curacao", "America/Dominica",
        "America/Jamaica", "America/Juneau", "America/Lower_Princes",
        "America/Mazatlan", "America/Merida", "America/Nassau",
        "America/New_York", "America/Panama", "America/Puerto_Rico",
        "America/Sitka", "America/St_Kitts", "America/St_Lucia",
        "America/Tijuana", "America/Tortola", "America/Vancouver",
        "Atlantic/Madeira", "Atlantic/Reykjavik", "Australia/Hobart",
        "Australia/Melbourne", "Australia/Sydney", "Europe/Amsterdam",
        "Europe/Athens", "Europe/Berlin", "Europe/Brussels",
        "Europe/Copenhagen", "Europe/Dublin", "Europe/Helsinki",
        "Europe/Lisbon", "Europe/London", "Europe/Madrid", "Europe/Malta",
        "Europe/Oslo", "Europe/Paris", "Europe/Rome", "Europe/Stockholm",
        "Europe/Zagreb", "Pacific/Auckland", "Pacific/Fiji",
        "Pacific/Honolulu", "Pacific/Noumea", "Pacific/Pago_Pago"
    }

\* no zone: None
NoZone == "None"

\* ZoneInfo(tz_name), America/New_York when that raises
zinfo(tz_name) == IF tz_name \in TzDatabase THEN tz_name ELSE "America/New_York"

zinfo_eastern == zinfo("America/New_York")

\* (needle, tz) in the order of the list; the one letter that is not ASCII
\* is written "U+00E7"
PORT_TZ_MAP ==
    <<
        <<<<"c", "a", "n", "a", "v", "e", "r", "a", "l">>, "America/New_York">>,
        <<<<"e", "v", "e", "r", "g", "l", "a", "d", "e", "s">>, "America/New_York">>,
        <<<<"f", "o", "r", "t", " ", "l", "a", "u", "d", "e", "r", "d", "a", "l", "e">>, "America/New_York">>,
        <<<<"c", "a", "s", "t", "a", "w", "a", "y">>, "America/Nassau">>,
        <<<<"g", "o", "r", "d", "a", " ", "c", "a", "y">>, "America/Nassau">>,
        <<<<"l", "o", "o", "k", "o", "u", "t", " ", "c", "a", "y">>, "America/Nassau">>,
        <<<<"l", "i", "g", "h", "t", "h", "o", "u", "s", "e", " ", "p", "o", "i", "n", "t">>, "America/Nassau">>,
        <<<<"n", "a", "s", "s", "a", "u">>, "America/Nassau">>,
        <<<<"c", "o", "z", "u", "m", "e", "l">>, "America/Cancun">>,
        <<<<"p", "r", "o", "g", "r", "e", "s", "o">>, "America/Merida">>,
        <<<<"g", "a", "l", "v", "e", "s", "t", "o", "n">>, "America/Chicago">>,
        <<<<"s", "a", "n", " ", "j", "u", "a", "n">>, "America/Puerto_Rico">>,
        <<<<"t", "o", "r", "t", "o", "l", "a">>, "America/Tortola">>,
        <<<<"s", "t", ".", " ", "m", "a", "a", "r", "t", "e", "n">>, "America/Lower_Princes">>,
        <<<<"s", "t", " ", "m", "a", "a", "r", "t", "e", "n">>, "America/Lower_Princes">>,
        <<<<"b", "a", "s", "s", "e", "t", "e", "r", "r", "e">>, "America/St_Kitts">>,
        <<<<"a", "n", "t", "i", "g", "u", "a">>, "America/Antigua">>,
        <<<<"f", "a", "l", "m", "o", "u", "t", "h">>, "America/Jamaica">>,
        <<<<"c", "a", "s", "t", "r", "i", "e", "s">>, "America/St_Lucia">>,
        <<<<"s", "t", ".", " ", "l", "u", "c", "i", "a">>, "America/St_Lucia">>,
        <<<<"c", "u", "r", "a", "U+00E7", "a", "o">>, "America/Curacao">>,
        <<<<"w", "i", "l", "l", "e", "m", "s", "t", "a", "d">>, "America/Curacao">>,
        <<<<"a", "r", "u", "b", "a">>, "America/Aruba">>,
        <<<<"c", "a", "y", "m", "a", "n">>, "America/Cayman">>,
        <<<<"r", "o", "s", "e", "a", "u">>, "America/Dominica">>,
        <<<<"d", "o", "m", "i", "n", "i", "c", "a">>, "America/Dominica">>,
        <<<<"c", "a", "b", "o">>, "America/Mazatlan">>,
        <<<<"e", "n", "s", "e", "n", "a", "d", "a">>, "America/Tijuana">>,
        <<<<"v", "a", "l", "l", "a", "r", "t", "a">>, "America/Bahia_Banderas">>,
        <<<<"j", "u", "n", "e", "a", "u">>, "America/Juneau">>,
        <<<<"s", "k", "a", "g", "w", "a", "y">>, "America/Juneau">>,
        <<<<"k", "e", "t", "c", "h", "i", "k", "a", "n">>, "America/Sitka">>,
        <<<<"i", "c", "y", " ", "s", "t", "r", "a", "i", "t">>, "America/Juneau">>,
        <<<<"g", "l", "a", "c", "i", "e", "r", " ", "v", "i", "e", "w", "i", "n", "g">>, "America/Juneau">>,
        <<<<"h", "o", "n", "o", "l", "u", "l", "u">>, "Pacific/Honolulu">>,
        <<<<"k", "a", "h", "u", "l", "u", "i">>, "Pacific/Honolulu">>,
        <<<<"n", "a", "w", "i", "l", "i", "w", "i", "l", "i">>, "Pacific/Honolulu">>,
        <<<<"h", "i", "l", "o">>, "Pacific/Honolulu">>,
        <<<<"a", "u", "c", "k", "l", "a", "n", "d">>, "Pacific/Auckland">>,
        <<<<"w", "e", "l", "l", "i", "n", "g", "t", "o", "n">>, "Pacific/Auckland">>,
        <<<<"t", "a", "u", "r", "a", "n", "g", "a">>, "Pacific/Auckland">>,
        <<<<"c", "h", "r", "i", "s", "t", "c", "h", "u", "r", "c", "h">>, "Pacific/Auckland">>,
        <<<<"l", "y", "t", "t", "e", "l", "t", "o", "n">>, "Pacific/Auckland">>,
        <<<<"e", "d", "e", "n">>, "Australia/Sydney">>,
        <<<<"h", "o", "b", "a", "r", "t">>, "Australia/Hobart">>,
        <<<<"m", "e", "l", "b", "o", "u", "r", "n", "e">>, "Australia/Melbourne">>,
        <<<<"s", "y", "d", "n", "e", "y">>, "Australia/Sydney">>,
        <<<<"n", "o", "u", "m", "e", "a">>, "Pacific/Noumea">>,
        <<<<"s", "u", "v", "a">>, "Pacific/Fiji">>,
        <<<<"p", "a", "g", "o", " ", "p", "a", "g", "o">>, "Pacific/Pago_Pago">>,
        <<<<"s", "o", "u", "t", "h", "a", "m", "p", "t", "o", "n">>, "Europe/London">>,
        <<<<"l", "i", "v", "e", "r", "p", "o", "o", "l">>, "Europe/London">>,
        <<<<"p", "o", "r", "t", "l", "a", "n", "d">>, "Europe/London">>,
        <<<<"g", "r", "e", "e", "n", "o", "c", "k">>, "Europe/London">>,
        <<<<"a", "m", "s", "t", "e", "r", "d", "a", "m">>, "Europe/Amsterdam">>,
        <<<<"r", "o", "t", "t", "e", "r", "d", "a", "m">>, "Europe/Amsterdam">>,
        <<<<"z", "e", "e", "b", "r", "u", "g", "g", "e">>, "Europe/Brussels">>,
        <<<<"v", "i", "g", "o">>, "Europe/Madrid">>,
        <<<<"b", "i", "l", "b", "a", "o">>, "Europe/Madrid">>,
        <<<<"m", "a", "l", "a", "g", "a">>, "Europe/Madrid">>,
        <<<<"b", "a", "r", "c", "e", "l", "o", "n", "a">>, "Europe/Madrid">>,
        <<<<"c", "a", "d", "i", "z">>, "Europe/Madrid">>,
        <<<<"c", "a", "r", "t", "a", "g", "e", "n", "a">>, "Europe/Madrid">>,
        <<<<"a", "l", "e", "s", "u", "n", "d">>, "Europe/Oslo">>,
        <<<<"b", "e", "r", "g", "e", "n">>, "Europe/Oslo">>,
        <<<<"o", "l", "d", "e", "n">>, "Europe/Oslo">>,
        <<<<"h", "a", "u", "g", "e", "s", "u", "n", "d">>, "Europe/Oslo">>,
        <<<<"s", "t", "a", "v", "a", "n", "g", "e", "r">>, "Europe/Oslo">>,
        <<<<"m", "e", "k", "j", "a", "r", "v", "i", "k">>, "Europe/Oslo">>,
        <<<<"m", "e", "s", "s", "i", "n", "a">>, "Europe/Rome">>,
        <<<<"c", "i", "v", "i", "t", "a", "v", "e", "c", "c", "h", "i", "a">>, "Europe/Rome">>,
        <<<<"r", "o", "m", "e">>, "Europe/Rome">>,
        <<<<"n", "a", "p", "l", "e", "s">>, "Europe/Rome">>,
        <<<<"l", "i", "v", "o", "r", "n", "o">>, "Europe/Rome">>,
        <<<<"a", "j", "a", "c", "c", "i", "o">>, "Europe/Paris">>,
        <<<<"l", "a", " ", "c", "o", "r", "u", "n", "a">>, "Europe/Madrid">>,
        <<<<"c", "o", "r", "u", "n", "a">>, "Europe/Madrid">>,
        <<<<"c", "h", "a", "n", "i", "a">>, "Europe/Athens">>,
        <<<<"c", "o", "r", "f", "u">>, "Europe/Athens">>,
        <<<<"a", "r", "g", "o", "s", "t", "o", "l", "i">>, "Europe/Athens">>,
        <<<<"s", "a", "n", "t", "o", "r", "i", "n", "i">>, "Europe/Athens">>,
        <<<<"m", "y", "k", "o", "n", "o", "s">>, "Europe/Athens">>,
        <<<<"d", "u", "b", "r", "o", "v", "n", "i", "k">>, "Europe/Zagreb">>,
        <<<<"a", "t", "h", "e", "n", "s">>, "Europe/Athens">>,
        <<<<"p", "i", "r", "a", "e", "u", "s">>, "Europe/Athens">>,
        <<<<"v", "a", "l", "e", "t", "t", "a">>, "Europe/Malta">>,
        <<<<"m", "a", "l", "t", "a">>, "Europe/Malta">>,
        <<<<"f", "u", "n", "c", "h", "a", "l">>, "Atlantic/Madeira">>,
        <<<<"v", "a", "n", "c", "o", "u", "v", "e", "r">>, "America/Vancouver">>,
        <<<<"v", "i", "c", "t", "o", "r", "i", "a">>, "America/Vancouver">>
    >>

\* country prefix of the port code -> tz
TZ_BY_PORT_PREFIX ==
    {
        <<<<"U", "S">>, "America/New_York">>,
        <<<<"C", "A">>, "America/Vancouver">>,
        <<<<"M", "X">>, "America/Cancun">>,
        <<<<"P", "R">>, "America/Puerto_Rico">>,
        <<<<"J", "M">>, "America/Jamaica">>,
        <<<<"B", "S">>, "America/Nassau">>,
        <<<<"K", "Y">>, "America/Cayman">>,
        <<<<"A", "W">>, "America/Aruba">>,
        <<<<"C", "W">>, "America/Curacao">>,
        <<<<"V", "G">>, "America/Tortola">>,
        <<<<"G", "B">>, "Europe/London">>,
        <<<<"I", "E">>, "Europe/Dublin">>,
        <<<<"E", "S">>, "Europe/Madrid">>,
        <<<<"P", "T">>, "Europe/Lisbon">>,
        <<<<"F", "R">>, "Europe/Paris">>,
        <<<<"I", "T">>, "Europe/Rome">>,
        <<<<"M", "T">>, "Europe/Malta">>,
        <<<<"G", "R">>, "Europe/Athens">>,
        <<<<"H", "R">>, "Europe/Zagreb">>,
        <<<<"N", "L">>, "Europe/Amsterdam">>,
        <<<<"B", "E">>, "Europe/Brussels">>,
        <<<<"D", "E">>, "Europe/Berlin">>,
        <<<<"N", "O">>, "Europe/Oslo">>,
        <<<<"D", "K">>, "Europe/Copenhagen">>,
        <<<<"S", "E">>, "Europe/Stockholm">>,
        <<<<"F", "I">>, "Europe/Helsinki">>,
        <<<<"I", "S">>, "Atlantic/Reykjavik">>,
        <<<<"A", "U">>, "Australia/Sydney">>,
        <<<<"N", "Z">>, "Pacific/Auckland">>,
        <<<<"N", "C">>, "Pacific/Noumea">>,
        <<<<"F", "J">>, "Pacific/Fiji">>,
        <<<<"A", "S">>, "Pacific/Pago_Pago">>,
        <<<<"P", "A">>, "America/Panama">>,
        <<<<"C", "O">>, "America/Bogota">>
    }

T_ports == <<"/", "p", "o", "r", "t", "s", "/">>

\* where r"/ports/([A-Z]{2})" matches in the link
LinkMatches(port_link) ==
    {i \in 0..(Len(port_link) - (Len(T_ports) + 2)) :
        /\ SubSeq(port_link, i + 1, i + Len(T_ports)) = T_ports
        /\ port_link[i + Len(T_ports) + 1] \in UpperSet
        /\ port_link[i + Len(T_ports) + 2] \in UpperSet}

\* TZ_BY_PORT_PREFIX.get(cc)
PrefixZone(cc) ==
    IF \E e \in TZ_BY_PORT_PREFIX : e[1] = cc
    THEN (CHOOSE e \in TZ_BY_PORT_PREFIX : e[1] = cc)[2]
    ELSE NoZone

\* re.search takes the leftmost match; None and "" have none
_port_zoneinfo_from_link(port_link) ==
    IF LinkMatches(port_link) = {} THEN NoZone
    ELSE LET i == CHOOSE m \in LinkMatches(port_link) :
                      \A n \in LinkMatches(port_link) : m <= n
             cc == SubSeq(port_link, i + Len(T_ports) + 1, i + Len(T_ports) + 2)
         IN  IF PrefixZone(cc) # NoZone THEN zinfo(PrefixZone(cc)) ELSE NoZone

\* the entries of PORT_TZ_MAP whose needle is in the lower-cased name
NeedlesIn(port_name) ==
    {k \in 1..Len(PORT_TZ_MAP) : Contains(StrLower(port_name), PORT_TZ_MAP[k][1])}

\* None and "" are Eastern; else the first needle found, else Eastern
_port_zoneinfo_from_name(port_name) ==
    IF port_name = <<>> \/ NeedlesIn(port_name) = {} THEN zinfo_eastern
    ELSE LET k == CHOOSE m \in NeedlesIn(port_name) :
                      \A n \in NeedlesIn(port_name) : m <= n
         IN  zinfo(PORT_TZ_MAP[k][2])

\* mutant of tz_local: the name is asked before the link
tz_local_name_first(port_name, port_link) ==
    IF NeedlesIn(port_name) # {} THEN _port_zoneinfo_from_name(port_name)
    ELSE IF _port_zoneinfo_from_link(port_link) # NoZone
         THEN _port_zoneinfo_from_link(port_link)
         ELSE zinfo_eastern

\* _port_zoneinfo_from_link(port_link) or _port_zoneinfo_from_name(port_name)
tz_local(port_name, port_link) ==
    IF _port_zoneinfo_from_link(port_link) # NoZone
    THEN _port_zoneinfo_from_link(port_link)
    ELSE _port_zoneinfo_from_name(port_name)

----------------------------------------------------------------------------
(* Zone resolution, called in turn *)

\* the calls of the zone resolution one behaviour makes at most
MaxZoneCalls == 1

T_vesselfinder == <<"h", "t", "t", "p", "s", ":", "/", "/", "w", "w", "w", ".", "v", "e", "s", "s", "e", "l", "f", "i", "n", "d", "e", "r", ".", "c", "o", "m">>

\* a link to a port page: host, "/ports/", the port code, the query
PortLink(host, code, query) == host \o T_ports \o code \o query

\* the port pages of Port Canaveral, Galveston (with the host), Nassau,
\* Cozumel, Bridgetown (BB is in no table), Tortola and San Juan
LinkParts ==
    {<<<<>>, <<"U", "S", "C", "P", "V">>, <<"?", "n", "a", "m", "e", "=", "P", "o", "r", "t", "-", "C", "a", "n", "a", "v", "e", "r", "a", "l">>>>,
     <<T_vesselfinder, <<"U", "S", "G", "L", "V">>, <<"?", "n", "a", "m", "e", "=", "G", "a", "l", "v", "e", "s", "t", "o", "n">>>>,
     <<<<>>, <<"B", "S", "N", "A", "S">>, <<"?", "n", "a", "m", "e", "=", "N", "a", "s", "s", "a", "u">>>>,
     <<<<>>, <<"M", "X", "C", "Z", "M">>, <<"?", "n", "a", "m", "e", "=", "C", "o", "z", "u", "m", "e", "l">>>>,
     <<<<>>, <<"B", "B", "B", "G", "I">>, <<"?", "n", "a", "m", "e", "=", "B", "r", "i", "d", "g", "e", "t", "o", "w", "n">>>>,
     <<<<>>, <<"V", "G", "R", "A", "D">>, <<>>>>,
     <<<<>>, <<"P", "R", "S", "J", "U">>, <<"?", "n", "a", "m", "e", "=", "S", "a", "n", "-", "J", "u", "a", "n">>>>}

\* the links above, a link whose code is in small letters, and no link
ZoneLinks ==
    {PortLink(p[1], p[2], p[3]) : p \in LinkParts} \cup
    {PortLink(<<>>, <<"u", "s", "c", "p", "v">>, <<>>), <<>>}

\* port names: with one needle, with two ("Falmouth, Antigua"; "La Coruna"),
\* with none, and empty
ZoneNames ==
    {T_PortCanaveral, T_CastawayCay,
     <<"G", "a", "l", "v", "e", "s", "t", "o", "n">>,
     <<"N", "a", "s", "s", "a", "u">>,
     <<"F", "a", "l", "m", "o", "u", "t", "h", ",", " ", "A", "n", "t", "i", "g", "u", "a">>,
     <<"L", "a", " ", "C", "o", "r", "u", "n", "a">>,
     <<"S", "t", ".", " ", "M", "a", "a", "r", "t", "e", "n">>,
     <<"B", "r", "i", "d", "g", "e", "t", "o", "w", "n">>,
     <<"C", "o", "z", "u", "m", "e", "l">>,
     <<"V", "i", "c", "t", "o", "r", "i", "a">>,
     <<"C", "u", "r", "a", "U+00E7", "a", "o">>,
     <<>>}

ZoneCall(port_name, port_link) ==
    /\ Len(calls) < MaxZoneCalls
    /\ Call("tz_local", <<port_name, port_link>>, now, tz_local(port_name, port_link))

InitZone == InitCalls

NextZone == \E port_name \in ZoneNames, port_link \in ZoneLinks : ZoneCall(port_name, port_link)

SpecZone == InitZone /\ [][NextZone]_vars

----------------------------------------------------------------------------
(* Properties of a run of main *)

\* the observations of the run that carry this guid and were emitted
EmittedWith(guids) ==
    {k \in 1..Len(observed) : observed[k].emitted /\ observed[k].guid \in guids}

\* the guid was not in canon_seen when the run loaded state.json
Fresh(o) == o.guid \notin disk.state.canon_seen

\* C1: a raw observation (vessel slug, event kind, port text, raw time text)
\* that a run emitted before saving its state is never emitted again by a
\* later run.
C1_SeenStatePermanence ==
    \A i \in 1..Len(observed) :
        (observed[i].source # "geo" /\ RawOf(observed[i]) \in accepted) =>
            ~observed[i].emitted

\* observations i, j of one run: same vessel, same event kind, the port
\* texts "Port Canaveral" and "PORT CANAVERAL", each with a time
CanaveralPair(i, j) ==
    /\ i < j
    /\ observed[i].slug = observed[j].slug
    /\ observed[i].event = observed[j].event
    /\ {observed[i].port, observed[j].port} = {T_PortCanaveral, T_PORT_CANAVERAL}
    /\ observed[i].iso # None
    /\ observed[j].iso # None

\* C2 as stated: two observations of one run, "Port Canaveral" and
\* "PORT CANAVERAL", 30 seconds apart, neither seen before, yield exactly
\* one emitted event.
C2_CrossSourceDedup ==
    \A i, j \in 1..Len(observed) :
        (/\ CanaveralPair(i, j)
         /\ observed[j].iso - observed[i].iso \in {30, -30}
         /\ Fresh(observed[i])
         /\ Fresh(observed[j])) =>
            Cardinality(EmittedWith({observed[i].guid, observed[j].guid})) = 1

\* C2 amended: when the two times lie in the same UTC minute the two
\* observations get one guid, the second is not emitted, the guid is in
\* canon_seen, and the run emits it exactly once (one item handed to
\* history) if it was not seen before the run, never otherwise.
C2_CrossSourceDedupAmended ==
    \A i, j \in 1..Len(observed) :
        (/\ CanaveralPair(i, j)
         /\ FloorMinute(observed[i].iso) = FloorMinute(observed[j].iso)) =>
            LET g == observed[i].guid
            IN  /\ observed[j].guid = g
                /\ ~observed[j].emitted
                /\ g \in state.canon_seen
                /\ Cardinality(EmittedWith({g})) = (IF Fresh(observed[i]) THEN 1 ELSE 0)
                /\ Len(SelectSeq(all_items_new, LAMBDA it : it.guid = g))
                       = (IF Fresh(observed[i]) THEN 1 ELSE 0)

\* the ship page says "Port Canaveral", the port page "PORT CANAVERAL", 30
\* seconds apart in one minute; the first was emitted, the second was not
C2_Witness ==
    /\ Len(observed) >= 2
    /\ CanaveralPair(1, 2)
    /\ observed[1].source = "vf_ship"
    /\ observed[2].source = "vf_port"
    /\ observed[1].port = T_PortCanaveral
    /\ observed[1].iso - observed[2].iso = 30
    /\ FloorMinute(observed[1].iso) = FloorMinute(observed[2].iso)
    /\ observed[1].emitted
    /\ ~observed[2].emitted
    /\ Len(all_items_new) = 1

\* the fences a port text names: the fence's own name, or a text that
\* contains one of the fence's aliases
PhysicalPort(text) ==
    {f \in FenceNames :
        \/ text = Fence(f).text
        \/ \E a \in Fence(f).aliases : Contains(StrLower(text), a)}
PhysicalPortOf == [t \in PortTexts |-> PhysicalPort(t)]

SamePhysicalPort(a, b) == a = b \/ PhysicalPortOf[a] \cap PhysicalPortOf[b] # {}

\* C3: two observations of the same vessel, event kind, physical port and
\* UTC minute get the same guid, whichever source produced them.
C3_SourceIndependentIdentity ==
    \A i, j \in 1..Len(observed) :
        (/\ observed[i].iso # None
         /\ observed[j].iso # None
         /\ observed[i].slug = observed[j].slug
         /\ observed[i].event = observed[j].event
         /\ SamePhysicalPort(observed[i].port, observed[j].port)
         /\ FloorMinute(observed[i].iso) = FloorMinute(observed[j].iso)) =>
            observed[i].guid = observed[j].guid

----------------------------------------------------------------------------
(* Properties of the SKIP_TBA switches and of rows without a time *)

\* the observations of the run that were emitted
Emitted == {k \in 1..Len(observed) : observed[k].emitted}

\* C11: where SKIP_TBA[kind] is True, a ship-page row of that kind whose
\* time text is empty or unparseable yields no event; what a run adds to
\* canon_seen and to its new items comes from emitted observations that
\* carry a time, so such a row adds nothing to either, nor to the history.
C11_IndefiniteTimeDrop ==
    /\ \A k \in 1..Len(observed) :
           (/\ observed[k].source = "vf_ship"
            /\ IndefiniteText(observed[k].when_raw)
            /\ skip_tba[observed[k].event]) =>
               /\ ~observed[k].emitted
               /\ observed[k].guid \notin state.canon_seen
    /\ pc # "idle" =>
           /\ \A g \in state.canon_seen \ before.state.canon_seen :
                  \E k \in Emitted : /\ observed[k].guid = g
                                     /\ ~IndefiniteText(observed[k].when_raw)
           /\ Len(all_items_new) = Cardinality(Emitted)
    /\ \A key \in DOMAIN disk.hist : \A i \in 1..Len(disk.hist[key]) :
           disk.hist[key][i].eventUtc # None

\* a Departed row without a time, under SKIP_TBA["Departed"] = True, has
\* been processed: nothing new is seen, nothing is handed to history
C11_Witness ==
    /\ pc = "port"
    /\ skip_tba["Departed"]
    /\ Len(observed) = 1
    /\ observed[1].event = "Departed"
    /\ observed[1].when_raw = EmptyText
    /\ ~observed[1].emitted
    /\ state.canon_seen = before.state.canon_seen
    /\ all_items_new = <<>>
    /\ ship_items_new = <<>>

\* C12: where SKIP_TBA["Departed"] is False, a Departed row with empty time
\* text yields exactly one placeholder event, marked as without a time.
C12_IndefinitePassThrough ==
    \A k \in 1..Len(observed) :
        (/\ observed[k].source = "vf_ship"
         /\ observed[k].event = "Departed"
         /\ observed[k].when_raw = EmptyText
         /\ ~skip_tba["Departed"]) =>
            /\ observed[k].emitted
            /\ Cardinality({i \in 1..Len(all_items_new) :
                   /\ all_items_new[i].guid = observed[k].guid
                   /\ all_items_new[i].eventUtc = None}) = 1

\* C13: an observation that carries a time, of an event (vessel, kind,
\* port) for which a row without a time was processed before, is not
\* discarded on account of that row: its guid is the canonical guid of its
\* own time, no row without a time put that guid in canon_seen, and it is
\* emitted unless that guid was already seen.
C13_PlaceholdersNeverSuppress ==
    \A k \in 1..Len(observed) :
        (/\ ~IndefiniteText(observed[k].when_raw)
         /\ EventOf(observed[k]) \in tba.rows) =>
            /\ observed[k].iso # None
            /\ observed[k].guid =
                   _canonical_guid(observed[k].slug, VerbText(observed[k].event),
                                   observed[k].port, observed[k].iso, now)
            /\ observed[k].guid \notin tba.guids
            /\ observed[k].emitted <=> ~observed[k].was_seen

\* a row without a time was processed for the event in an earlier run, and
\* the row that carries the time is emitted now
C13_Witness ==
    /\ runs >= 1
    /\ Len(observed) = 1
    /\ ~IndefiniteText(observed[1].when_raw)
    /\ EventOf(observed[1]) \in tba.rows
    /\ observed[1].emitted
    /\ Len(all_items_new) = 1

----------------------------------------------------------------------------
(* Properties of the order in which main consults its sources *)

\* the observations of the run that were given the guid
ObservedWith(g) == {k \in 1..Len(observed) : observed[k].guid = g}

\* the guids of the run that observations of more than one source were given
SharedGuids ==
    {g \in {observed[k].guid : k \in 1..Len(observed)} \ {NoGuid} :
        Cardinality({observed[k].source : k \in ObservedWith(g)}) > 1}

\* the preferred source among those present: ship page, port page, geofence
PreferredSource(sources) ==
    IF "vf_ship" \in sources THEN "vf_ship"
    ELSE IF "vf_port" \in sources THEN "vf_port" ELSE "geo"

\* C14 as stated: a guid that observations of more than one source of one
\* run were given is emitted exactly once.
C14_SourcePreference ==
    \A g \in SharedGuids : Cardinality(EmittedWith({g})) = 1

\* C14 amended: a guid that observations of more than one source of one run
\* were given is emitted exactly once if it was not in canon_seen before the
\* run, as one item whose source is vf_ship if the ship page gave it, else
\* vf_port if a port page gave it, else geo; it is not emitted if it was in
\* canon_seen before the run.
C14_SourcePreferenceAmended ==
    \A g \in SharedGuids :
        LET items == SelectSeq(all_items_new, LAMBDA it : it.guid = g)
        IN  IF g \in before.state.canon_seen
            THEN EmittedWith({g}) = {} /\ items = <<>>
            ELSE /\ Cardinality(EmittedWith({g})) = 1
                 /\ Len(items) = 1
                 /\ items[1].source =
                        PreferredSource({observed[k].source : k \in ObservedWith(g)})
                 /\ \A k \in EmittedWith({g}) : observed[k].source = items[1].source

\* ship page, port page and geofence gave one guid, new to this run; the
\* one item of the run is the ship page's
C14_Witness ==
    /\ Len(observed) = 3
    /\ observed[1].source = "vf_ship"
    /\ observed[2].source = "vf_port"
    /\ observed[3].source = "geo"
    /\ observed[2].guid = observed[1].guid
    /\ observed[3].guid = observed[1].guid
    /\ observed[1].guid \notin before.state.canon_seen
    /\ observed[1].emitted
    /\ ~observed[2].emitted
    /\ ~observed[3].emitted
    /\ Len(all_items_new) = 1
    /\ all_items_new[1].source = "vf_ship"

----------------------------------------------------------------------------
(* Properties of a run over several vessels whose sources fail *)

\* the new items of the run that are the vessel's
ItemsOf(slug) == SelectSeq(all_items_new, LAMBDA it : it.shipSlug = slug)

\* the results of the run's steps of one stage for the vessel
ResultsOf(stage, slug) ==
    {steps[i].result : i \in {j \in 1..Len(steps) :
                                 steps[j].stage = stage /\ steps[j].slug = slug}}

\* C18: a run in which sources of vessels failed ends as a success; every
\* vessel of ships.json went through the ship page, the port fallback and
\* the geofence and has its history log merged with its new items and
\* written; the global log is merged and written and the state is saved.
C18_VesselLocalFailures ==
    (pc = "idle" /\ outcome # "none") =>
        /\ outcome = "success"
        /\ \A k \in 1..Len(ships) :
               LET slug == ships[k].slug
               IN  /\ \A stage \in {"page", "port", "geo"} :
                          ResultsOf(stage, slug) # {}
                   /\ ResultsOf("hist_save", slug) = {"ok"}
                   /\ disk.hist[slug] =
                          merge_items(before.hist[slug], ItemsOf(slug), PER_SHIP_CAP)
        /\ ResultsOf("hist_save", "all") = {"ok"}
        /\ disk.hist["all"] = merge_items(before.hist["all"], all_items_new, ALL_CAP)
        /\ steps[Len(steps)] = Step("state_save", "", "ok")
        /\ disk.state = state

\* the ship page of the first vessel failed; the second vessel's new event
\* is in its history log and in the global log, and its guid is saved
C18_Witness ==
    /\ pc = "idle"
    /\ outcome = "success"
    /\ "error" \in ResultsOf("page", ships[1].slug)
    /\ Len(ItemsOf(ships[2].slug)) = 1
    /\ disk.hist[ships[2].slug] = ItemsOf(ships[2].slug)
    /\ \E i \in 1..Len(disk.hist["all"]) :
           disk.hist["all"][i] = ItemsOf(ships[2].slug)[1]
    /\ ItemsOf(ships[2].slug)[1].guid \in disk.state.canon_seen

\* every source of the vessel failed or gave nothing in the run, as far as
\* the run has come
Quiet(slug) ==
    /\ \A stage \in {"page", "port", "geo"} :
           ResultsOf(stage, slug) \subseteq {"empty", "error"}
    /\ ResultsOf("page", slug) # {}

\* C19: for a vessel whose every source failed or gave nothing in the run,
\* no event is emitted, canon_seen gains no guid of the vessel, the
\* vessel's fence booleans are as they were loaded, and the vessel's
\* persisted history log is as it was before the run.
C19_UpstreamFailureNothingNew ==
    \A k \in 1..Len(ships) :
        LET slug == ships[k].slug
        IN  Quiet(slug) =>
                /\ ItemsOf(slug) = <<>>
                /\ \A i \in Emitted : observed[i].slug # slug
                /\ \A g \in (state.canon_seen \cup disk.state.canon_seen)
                                \ before.state.canon_seen : g[2] # slug
                /\ (slug \in DOMAIN state.geo) = (slug \in DOMAIN before.state.geo)
                /\ GetMap(state.geo, slug) = GetMap(before.state.geo, slug)
                /\ GetMap(disk.state.geo, slug) = GetMap(before.state.geo, slug)
                /\ disk.hist[slug] = before.hist[slug]

\* the second run ended; for the second vessel the ship page failed, the
\* port pages and the position gave nothing; its log and its fence
\* booleans, which the first run wrote, are as they were
C19_Witness ==
    /\ pc = "idle"
    /\ outcome = "success"
    /\ runs = 2
    /\ Quiet(ships[2].slug)
    /\ "error" \in ResultsOf("page", ships[2].slug)
    /\ ResultsOf("geo", ships[2].slug) = {"empty"}
    /\ before.hist[ships[2].slug] # <<>>
    /\ disk.hist[ships[2].slug] = before.hist[ships[2].slug]
    /\ ships[2].slug \in DOMAIN before.state.geo
    /\ disk.state.geo[ships[2].slug] = before.state.geo[ships[2].slug]
    /\ ItemsOf(ships[1].slug) # <<>>

----------------------------------------------------------------------------
(* Properties of the history logs and of latest-all over several ships *)

ConfiguredSlugs == {ships[i].slug : i \in 1..Len(ships)}

\* C32: starting from empty history files, after any sequence of runs every
\* entry of the persisted history log of slug S has shipSlug S, and every
\* entry of the global log has the shipSlug of a configured ship.
C32_PerShipLogsHoldOwnShip ==
    /\ \A slug \in ConfiguredSlugs : \A k \in 1..Len(disk.hist[slug]) :
           disk.hist[slug][k].shipSlug = slug
    /\ \A k \in 1..Len(disk.hist["all"]) :
           disk.hist["all"][k].shipSlug \in ConfiguredSlugs

\* after two runs both ships have an entry in their own log, and the global
\* log holds entries of both ships
C32_Witness ==
    /\ pc = "idle"
    /\ runs = 2
    /\ \A slug \in ConfiguredSlugs : disk.hist[slug] # <<>>
    /\ {disk.hist["all"][k].shipSlug : k \in 1..Len(disk.hist["all"])}
           = ConfiguredSlugs

\* the entries of the global log that belong to slug
EntriesOf(slug) ==
    {k \in 1..Len(disk.hist["all"]) : disk.hist["all"][k].shipSlug = slug}

\* C33: the latest-all selection built at the end of a run holds exactly one
\* item for each ship slug with an entry in the global history log, and that
\* item is an entry of the global log with the greatest eventUtc among the
\* slug's entries.
C33_LatestOnePerShip ==
    /\ \A slug \in ConfiguredSlugs :
           Cardinality({k \in 1..Len(latest_all) : latest_all[k].shipSlug = slug})
               = IF EntriesOf(slug) = {} THEN 0 ELSE 1
    /\ \A k \in 1..Len(latest_all) :
           /\ latest_all[k].shipSlug \in ConfiguredSlugs
           /\ \E j \in EntriesOf(latest_all[k].shipSlug) :
                  disk.hist["all"][j] = latest_all[k]
           /\ \A j \in EntriesOf(latest_all[k].shipSlug) :
                  disk.hist["all"][j].eventUtc <= latest_all[k].eventUtc

\* the global log holds two entries of one ship with different times; the
\* selection is the later one
C33_Witness ==
    /\ pc = "save"
    /\ Len(disk.hist["all"]) = 2
    /\ disk.hist["all"][1].shipSlug = disk.hist["all"][2].shipSlug
    /\ disk.hist["all"][1].eventUtc > disk.hist["all"][2].eventUtc
    /\ latest_all = <<disk.hist["all"][1]>>

----------------------------------------------------------------------------
(* Properties of what a run leaves on disk *)

\* the steps of the run that wrote, or tried to write, a file
Writes == {i \in 1..Len(steps) : steps[i].stage \in {"hist_save", "state_save"}}

\* C15: every guid in the persisted canon_seen before a run is in the
\* persisted canon_seen after it, whatever came of loading state.json.
C15_SeenAdditiveOnly ==
    before.state.canon_seen \subseteq disk.state.canon_seen

\* C16: a run whose write of state.json failed ends in failure (exit
\* status other than 0).
C16_PersistenceFailureFatal ==
    (/\ pc = "idle"
     /\ steps # <<>>
     /\ steps[Len(steps)] = Step("state_save", "", "error")) =>
        outcome = "failure"

\* C17: a run that has ended either succeeded with every write done and the
\* state on disk the state it computed, or failed with everything on disk
\* (state and history logs) as it was before the run.
C17_AllOrNothing ==
    (pc = "idle" /\ outcome \in {"success", "failure"}) =>
        \/ /\ outcome = "success"
           /\ \A i \in Writes : steps[i].result = "ok"
           /\ disk.state = state
        \/ /\ outcome = "failure"
           /\ disk = before

\* C20: every guid a run added to the persisted canon_seen is the guid of
\* an event in the persisted history of its vessel.
C20_NoEventLost ==
    \A g \in disk.state.canon_seen \ before.state.canon_seen :
        \E i \in 1..Len(disk.hist[g[2]]) : disk.hist[g[2]][i].guid = g

----------------------------------------------------------------------------
(* Properties of merge_items *)

GuidsOf(s) == {s[i].guid : i \in 1..Len(s)}

\* the entry a guid ends with when the lists are put into the dict in turn:
\* the last one carrying it
LastWith(s, g) == s[CHOOSE i \in 1..Len(s) :
                     /\ s[i].guid = g
                     /\ \A j \in (i + 1)..Len(s) : s[j].guid # g]

SortedByEventUtc(s) ==
    \A i, j \in 1..Len(s) : i < j => _event_key(s[i]) >= _event_key(s[j])

DistinctGuids(s) ==
    \A i, j \in 1..Len(s) : i # j => s[i].guid # s[j].guid

\* C4: merging the same new events a second time changes nothing:
\* merge_items(merge_items(L,E,cap),E,cap) = merge_items(L,E,cap), same
\* events in the same order.
C4_IdempotentMerge == mpc = "again" => merged_again = merged

\* a new event that the cap dropped is offered again, next to a tie
C4_Witness ==
    /\ mpc = "again"
    /\ merged # <<>>
    /\ \E i \in 1..Len(new_items) : new_items[i].guid \notin GuidsOf(merged)
    /\ \E i \in 1..Len(merged) :
          \E j \in 1..Len(new_items) :
              /\ merged[i].guid # new_items[j].guid
              /\ _event_key(merged[i]) = _event_key(new_items[j])

\* C5: the result of merge_items is sorted by eventUtc descending and has
\* no two entries with the same guid, whatever the existing log looked like.
C5_OrderInvariant ==
    mpc # "input" => SortedByEventUtc(merged) /\ DistinctGuids(merged)

\* the existing log was unsorted and held a guid twice
C5_Witness ==
    /\ mpc = "merged"
    /\ ~SortedByEventUtc(existing)
    /\ ~DistinctGuids(existing)
    /\ Len(merged) >= 1

\* C6: n distinct guids merged under cap c leave min(n, c) entries, and no
\* dropped event is more recent than a retained one.
C6_CapEnforcement ==
    mpc # "input" =>
        LET all == existing \o new_items
            union == {LastWith(all, g) : g \in GuidsOf(all)}
            dropped == union \ Range(merged)
        IN  /\ Len(merged) = Min(Cardinality(GuidsOf(all)), cap)
            /\ Range(merged) \subseteq union
            /\ \A r \in Range(merged) : \A d \in dropped :
                   _event_key(r) >= _event_key(d)

\* more distinct guids than the cap: something was dropped
C6_Witness ==
    /\ mpc = "merged"
    /\ cap >= 1
    /\ Cardinality(GuidsOf(existing \o new_items)) > cap
    /\ Len(merged) = cap
    /\ \E i \in 1..Len(new_items) : new_items[i] \in Range(merged)

\* the results hold the same events; equal-eventUtc entries may swap places
SameEvents(a, b) ==
    /\ Range(a) = Range(b)
    /\ Len(a) = Len(b)

KeysOf(s) == [i \in 1..Len(s) |-> _event_key(s[i])]

\* every guid carries one event wherever it occurs in L, A and B
OneEventPerGuid ==
    LET all == existing \o new_items \o more_items
    IN  \A i, j \in 1..Len(all) : all[i].guid = all[j].guid => all[i] = all[j]

\* no two events with different guids share an eventUtc
NoTiedEvents ==
    LET all == existing \o new_items \o more_items
    IN  \A i, j \in 1..Len(all) :
           all[i].guid # all[j].guid => _event_key(all[i]) # _event_key(all[j])

\* C7 as stated: A then B, B then A, and A and B in one pass leave the same
\* events, also when A and B carry one guid with different eventUtc and when
\* an intermediate merge truncates at the cap (inputs with two guids on one
\* eventUtc are left to the claim's allowance for ties).
C7_OrderIndependent ==
    (mpc = "joint" /\ NoTiedEvents) =>
        /\ SameEvents(merged_ab, merged_ba)
        /\ SameEvents(merged_ab, merged_joint)

\* C7 amended: when every guid carries the same event wherever it occurs in
\* L, A and B, the three results have the same eventUtc at every position,
\* and they are the same list when no two guids share an eventUtc.
C7_OrderIndependentAmended ==
    (mpc = "joint" /\ OneEventPerGuid) =>
        /\ KeysOf(merged_ab) = KeysOf(merged_ba)
        /\ KeysOf(merged_ab) = KeysOf(merged_joint)
        /\ NoTiedEvents => (merged_ab = merged_ba /\ merged_ab = merged_joint)

\* three different guids, the first merge truncated at the cap, and the
\* second batch brings an event the cap keeps
C7_Witness ==
    /\ mpc = "joint"
    /\ OneEventPerGuid
    /\ Cardinality(GuidsOf(existing \o new_items)) > cap
    /\ \E i \in 1..Len(more_items) : more_items[i] \in Range(merged_ab)
    /\ GuidsOf(more_items) \cap GuidsOf(existing \o new_items) = {}

----------------------------------------------------------------------------
(* Properties of what a run registers and hands to the history logs *)

\* the entries of a list of items that carry the guid
WithGuid(items, g) == {i \in 1..Len(items) : items[i].guid = g}

\* C26: within a run every emitted event has its guid in canon_seen, is
\* once in the run's new items for the global log and, while its vessel is
\* the one the loop is at, once in the new items for the vessel's log; no
\* two events emitted in the run share a guid.
C26_AcceptedRegisteredAndHandedOn ==
    /\ \A k \in Emitted :
           LET g == observed[k].guid
           IN  /\ g \in state.canon_seen
               /\ Cardinality(WithGuid(all_items_new, g)) = 1
               /\ \A i \in WithGuid(all_items_new, g) :
                      /\ all_items_new[i].shipSlug = observed[k].slug
                      /\ all_items_new[i].source = observed[k].source
               /\ (/\ pc \in {"port", "geo", "hist"}
                   /\ observed[k].slug = ships[ship_ix].slug) =>
                      /\ Cardinality(WithGuid(ship_items_new, g)) = 1
                      /\ \A i \in WithGuid(ship_items_new, g) :
                             ship_items_new[i] \in Range(all_items_new)
    /\ \A k, m \in Emitted : k # m => observed[k].guid # observed[m].guid
    /\ pc # "idle" => Len(all_items_new) = Cardinality(Emitted)

\* the ship page and a port page each gave a new event, the geofence gave
\* one whose guid was seen by then: two new items wait for the merges
C26_Witness ==
    /\ pc = "hist"
    /\ Len(observed) = 3
    /\ observed[1].source = "vf_ship"
    /\ observed[2].source = "vf_port"
    /\ observed[3].source = "geo"
    /\ Emitted = {1, 2}
    /\ observed[3].was_seen
    /\ Len(ship_items_new) = 2
    /\ Len(all_items_new) = 2
    /\ {observed[1].guid, observed[2].guid} \subseteq state.canon_seen

\* the cap of a history file
CapOf(key) == IF key = "all" THEN ALL_CAP ELSE PER_SHIP_CAP

\* C27: starting from empty history files, after any runs every persisted
\* per-ship log and the persisted global log has pairwise distinct guids,
\* is sorted by eventUtc descending and is no longer than its cap.
C27_HistoryLogInvariants ==
    \A key \in DOMAIN disk.hist :
        /\ DistinctGuids(disk.hist[key])
        /\ SortedByEventUtc(disk.hist[key])
        /\ Len(disk.hist[key]) <= CapOf(key)

\* after two runs the global log is full, its two events of different
\* times the later first, and the ship's log holds the later one only
C27_Witness ==
    /\ runs = 2
    /\ Len(disk.hist["all"]) = ALL_CAP
    /\ disk.hist["all"][1].eventUtc > disk.hist["all"][Len(disk.hist["all"])].eventUtc
    /\ Len(disk.hist[ships[1].slug]) = PER_SHIP_CAP
    /\ disk.hist[ships[1].slug][1] = disk.hist["all"][1]
    /\ Cardinality(disk.state.canon_seen) > ALL_CAP

----------------------------------------------------------------------------
(* Properties of the geofence detector *)

\* the samples of one ship that carried coordinates, in order
SamplesOf(slug) ==
    SelectSeq(trail, LAMBDA e : e.slug = slug /\ e.coords # NoCoords)

\* the items among `items` built for fence_name
ForFence(items, fence_name) ==
    SelectSeq(items, LAMBDA it : it.title[3] = Fence(fence_name).text)

\* C9: the first sample ever processed for a (vessel, fence) pair yields no
\* event, inside or outside; it only seeds the stored boolean.
C9_GeofenceBaseline ==
    \A k \in 1..Len(trail) : \A f \in FenceNames :
        (trail[k].coords # NoCoords /\ f \notin DOMAIN trail[k].before) =>
            /\ ForFence(trail[k].returned, f) = <<>>
            /\ ForFence(trail[k].emitted, f) = <<>>
            /\ f \in DOMAIN trail[k].after
            /\ trail[k].after[f] = Inside(trail[k].coords, f)

\* a ship's first sample finds it inside a fence, and a later sample of the
\* same ship, outside, yields the departure
C9_Witness ==
    \E k, m \in 1..Len(trail) :
        /\ k < m
        /\ trail[k].slug = trail[m].slug
        /\ trail[k].before = EmptyMap
        /\ trail[k].coords # NoCoords
        /\ Inside(trail[k].coords, "Port Canaveral, Florida")
        /\ trail[k].returned = <<>>
        /\ Len(trail[m].emitted) = 1

\* a ship's samples k, k+1, k+2 are outside, inside, outside the fence
OutInOut(s, k, f) ==
    /\ ~Inside(s[k].coords, f)
    /\ Inside(s[k + 1].coords, f)
    /\ ~Inside(s[k + 2].coords, f)

\* exactly one event for the fence, with this verb
OneEvent(items, f, verb) ==
    /\ Len(ForFence(items, f)) = 1
    /\ ForFence(items, f)[1].title[2] = verb

VerbFor(items, f) ==
    IF ForFence(items, f) = <<>> THEN "none" ELSE ForFence(items, f)[1].title[2]

\* C28: for a sample of a (vessel, fence) pair whose boolean is stored,
\* geofence_events_from_coords returns an Arrived event for the fence
\* exactly when the boolean is false and the sample is inside, a Departed
\* event exactly when it is true and the sample is outside, and no event
\* for the fence when the sample's inside value equals the boolean.
C28_GeofenceEmissionRule ==
    \A k \in 1..Len(trail) : \A f \in FenceNames :
        (trail[k].coords # NoCoords /\ f \in DOMAIN trail[k].before) =>
            LET prev == trail[k].before[f]
                inside == haversine_km(trail[k].coords, f) <= Fence(f).radius_km
                items == ForFence(trail[k].returned, f)
            IN  /\ Len(items) <= 1
                /\ (VerbFor(trail[k].returned, f) = "Arrived") <=> (~prev /\ inside)
                /\ (VerbFor(trail[k].returned, f) = "Departed") <=> (prev /\ ~inside)
                /\ (inside = prev) => items = <<>>

\* a ship seen outside the Canaveral fence, then inside (an arrival), then
\* inside again (nothing)
C28_Witness ==
    \E ship \in GeoShips :
        LET s == SamplesOf(ship.slug)
            f == "Port Canaveral, Florida"
        IN  /\ Len(s) = 3
            /\ ~Inside(s[1].coords, f)
            /\ Inside(s[2].coords, f)
            /\ Inside(s[3].coords, f)
            /\ VerbFor(s[2].returned, f) = "Arrived"
            /\ s[3].before[f]
            /\ ForFence(s[3].returned, f) = <<>>

\* what is stored for the fence: "unset", or the boolean
Stored(geo_state, f) ==
    IF f \in DOMAIN geo_state THEN (IF geo_state[f] THEN "in" ELSE "out")
    ELSE "unset"

\* C29: a sample of vessel V changes only what is stored under V, and V's
\* entry for fence F is read from nothing but V's entry; two samples (of
\* any vessels) that find the same stored value for F and the same side of
\* F yield the same event, or none, for F, whatever else is stored.
C29_FencesTrackedIndependently ==
    /\ \A k \in 1..Len(trail) :
           /\ \A v \in DOMAIN trail[k].geo_before \cup DOMAIN trail[k].geo_after :
                  v # trail[k].slug =>
                      /\ v \in DOMAIN trail[k].geo_before
                      /\ v \in DOMAIN trail[k].geo_after
                      /\ trail[k].geo_after[v] = trail[k].geo_before[v]
           /\ trail[k].before = GetMap(trail[k].geo_before, trail[k].slug)
           /\ DOMAIN trail[k].geo_after \subseteq {sh.slug : sh \in GeoShips}
    /\ \A k, m \in 1..Len(trail) : \A f \in FenceNames :
           (/\ trail[k].coords # NoCoords
            /\ trail[m].coords # NoCoords
            /\ Stored(GetMap(trail[k].geo_before, trail[k].slug), f)
                   = Stored(GetMap(trail[m].geo_before, trail[m].slug), f)
            /\ Inside(trail[k].coords, f) = Inside(trail[m].coords, f)) =>
               VerbFor(trail[k].returned, f) = VerbFor(trail[m].returned, f)

\* one ship is stored inside the Canaveral fence, the other ship's first
\* sample, inside too, yields nothing and leaves the first ship's entry
C29_Witness ==
    \E k, m \in 1..Len(trail) :
        LET f == "Port Canaveral, Florida"
        IN  /\ k < m
            /\ trail[k].slug # trail[m].slug
            /\ trail[k].slug \in DOMAIN trail[m].geo_before
            /\ trail[m].geo_before[trail[k].slug][f]
            /\ trail[m].slug \notin DOMAIN trail[m].geo_before
            /\ Inside(trail[m].coords, f)
            /\ trail[m].coords # NoCoords
            /\ trail[m].returned = <<>>
            /\ trail[m].geo_after[trail[k].slug] = trail[m].geo_before[trail[k].slug]
            /\ trail[m].geo_after[trail[m].slug][f]

\* C30: after a sample with coordinates, the stored boolean of every fence
\* for the vessel says whether the distance to the fence's center is at
\* most the radius; a sample without coordinates leaves what is stored as
\* it was and creates no entry.
C30_FenceStateFollowsSample ==
    \A k \in 1..Len(trail) :
        IF trail[k].coords = NoCoords
        THEN /\ trail[k].geo_after = trail[k].geo_before
             /\ trail[k].returned = <<>>
        ELSE /\ trail[k].slug \in DOMAIN trail[k].geo_after
             /\ DOMAIN trail[k].geo_after[trail[k].slug] = FenceNames
             /\ \A f \in FenceNames :
                    trail[k].geo_after[trail[k].slug][f] =
                        (haversine_km(trail[k].coords, f) <= Fence(f).radius_km)

\* a sample on the boundary of the Canaveral fence is stored as inside, and
\* a sample without coordinates for a ship never seen creates no entry
C30_Witness ==
    \E k, m \in 1..Len(trail) :
        LET f == "Port Canaveral, Florida"
        IN  /\ trail[k].coords = "canaveral_edge"
            /\ haversine_km(trail[k].coords, f) = Fence(f).radius_km
            /\ trail[k].geo_after[trail[k].slug][f]
            /\ trail[m].coords = NoCoords
            /\ trail[m].slug \notin DOMAIN trail[m].geo_after

\* the verbs of the events returned for fence f over the samples s, in order
RECURSIVE VerbsFor(_, _)
VerbsFor(s, f) ==
    IF s = <<>> THEN <<>>
    ELSE [k \in 1..Len(ForFence(Head(s).returned, f)) |->
              ForFence(Head(s).returned, f)[k].title[2]]
         \o VerbsFor(Tail(s), f)

\* C31: the events geofence_events_from_coords returns for a (vessel, fence)
\* pair over the vessel's samples alternate between Arrived and Departed; the
\* first is Arrived when the seeding sample was outside the fence and
\* Departed when it was inside.
C31_GeofenceEventsAlternate ==
    \A ship \in GeoShips : \A f \in FenceNames :
        LET s == SamplesOf(ship.slug)
            v == VerbsFor(s, f)
        IN  /\ \A k \in 1..Len(v) : v[k] \in {"Arrived", "Departed"}
            /\ \A k \in 1..(Len(v) - 1) : v[k] # v[k + 1]
            /\ v # <<>> =>
                   v[1] = IF haversine_km(s[1].coords, f) <= Fence(f).radius_km
                          THEN "Departed" ELSE "Arrived"

\* a ship seeded outside the Canaveral fence comes in and leaves again
C31_Witness ==
    \E ship \in GeoShips :
        LET s == SamplesOf(ship.slug)
            f == "Port Canaveral, Florida"
        IN  /\ Len(s) = 3
            /\ ~Inside(s[1].coords, f)
            /\ VerbsFor(s, f) = <<"Arrived", "Departed">>

----------------------------------------------------------------------------
(* Properties of _parse_vf_time_utc *)

MonthOf(t) == MonthOfDay(TimeOfYear(t) \div SecondsPerDay)
DayOf(t) == ((TimeOfYear(t) \div SecondsPerDay) - DaysBefore(MonthOf(t))) + 1
HourOf(t) == (t % SecondsPerDay) \div (60 * 60)
MinuteOf(t) == (t % (60 * 60)) \div 60

\* the text is written in one of the formats of fmts
InAcceptedFormat(raw) == raw.fmt \in {"hm", "ampm", "hms"}

\* C25: _parse_vf_time_utc returns None for an empty or unparseable text; for
\* a text in one of the accepted formats it returns an instant with the
\* text's month, day, hour and minute in the UTC year current at the call.
C25_TimeResolution ==
    \A i \in CallsOf("_parse_vf_time_utc") :
        LET raw == calls[i].args[1]
            out == calls[i].out
        IN  IF InAcceptedFormat(raw)
            THEN /\ out # None
                 /\ YearOf(out) = YearOf(calls[i].at)
                 /\ MonthOf(out) = raw.mon
                 /\ DayOf(out) = raw.day
                 /\ HourOf(out) = raw.sod \div (60 * 60)
                 /\ MinuteOf(out) = (raw.sod % (60 * 60)) \div 60
            ELSE out = None

----------------------------------------------------------------------------
(* Properties of _canonical_guid *)

\* C21: two calls of _canonical_guid with the same four arguments return the
\* same guid, whenever they are made and whether or not event_iso is a
\* timestamp.
C21_CanonicalIdDeterministic ==
    \A i, j \in CallsOf("_canonical_guid") :
        calls[i].args = calls[j].args => calls[i].out = calls[j].out

SameIgnoringCase(a, b) ==
    /\ Len(a) = Len(b)
    /\ \A k \in 1..Len(a) : LowerChar(a[k]) = LowerChar(b[k])

SameUtcMinute(a, b) == IsoInstant(a) \div 60 = IsoInstant(b) \div 60

\* both calls are given an event time
Timed(i, j) == calls[i].args[4].kind = "iso" /\ calls[j].args[4].kind = "iso"

\* C22: two calls of _canonical_guid that are given event times return the
\* same guid if and only if the slugs are equal, the verbs are equal ignoring
\* case, the ports normalize to the same string and the times fall in the
\* same UTC minute, whatever their seconds and their UTC offsets.
C22_IdentityComponents ==
    \A i, j \in CallsOf("_canonical_guid") :
        Timed(i, j) =>
            LET a == calls[i].args
                b == calls[j].args
            IN  calls[i].out = calls[j].out <=>
                    /\ a[1] = b[1]
                    /\ SameIgnoringCase(a[2], b[2])
                    /\ _normalize_port_name(a[3]) = _normalize_port_name(b[3])
                    /\ SameUtcMinute(a[4], b[4])

\* the same event written in two ways, 30 seconds and five hours of offset
\* apart, has one guid; a minute later it has another
C22_Witness ==
    /\ Len(calls) = 2
    /\ Timed(1, 2)
    /\ calls[1].args[2] = T_Arrived /\ calls[2].args[2] = T_ARRIVED
    /\ calls[1].args[3] = T_PortCanaveral /\ calls[2].args[3] = T_PORT_CANAVERAL
    /\ calls[1].args[4] = IsoText(T0, 0)
    /\ calls[2].args[4] = IsoText(T0 + 30, -(5 * 60 * 60))
    /\ calls[1].out = calls[2].out

----------------------------------------------------------------------------
(* Properties of _normalize_port_name *)

\* a letter of either case or a digit
IsWordChar(c) == LowerChar(c) \in AlnumSet
IsPunctuation(c) == ~IsWordChar(c) /\ c # " "

RECURSIVE WithoutPunctuation(_)
WithoutPunctuation(t) ==
    IF t = <<>> THEN <<>>
    ELSE IF IsPunctuation(Head(t)) THEN WithoutPunctuation(Tail(t))
    ELSE <<Head(t)>> \o WithoutPunctuation(Tail(t))

RECURSIVE SingleBlanks(_)
SingleBlanks(t) ==
    IF Len(t) < 2 THEN t
    ELSE IF t[1] = " " /\ t[2] = " " THEN SingleBlanks(Tail(t))
    ELSE <<Head(t)>> \o SingleBlanks(Tail(t))

\* what is left of a name when letter case, punctuation and the length of
\* its runs of blanks are disregarded
Disregarding(t) ==
    SingleBlanks(WithoutPunctuation([k \in 1..Len(t) |-> LowerChar(t[k])]))

\* the words of a name: its maximal runs of letters and digits, lower-cased
RECURSIVE WordsFrom(_, _)
WordsFrom(t, word) ==
    LET done == IF word = <<>> THEN <<>> ELSE <<word>>
    IN  IF t = <<>> THEN done
        ELSE IF IsWordChar(Head(t))
             THEN WordsFrom(Tail(t), Append(word, LowerChar(Head(t))))
             ELSE done \o WordsFrom(Tail(t), <<>>)

Words(t) == WordsFrom(t, <<>>)

\* names that differ by one alias only
AliasPairs == {<<T_CapeCanaveral, T_PortCanaveral>>, <<T_FtLauderdale, T_FortLauderdale>>}

IsText(out) == \A k \in 1..Len(out) : out[k] \in AlnumSet \cup {" "}

AliasesEquated ==
    \A i, j \in CallsOf("_normalize_port_name") :
        <<calls[i].args[1], calls[j].args[1]>> \in AliasPairs
            => calls[i].out = calls[j].out

\* C24: _normalize_port_name returns a string for every input, None and ""
\* included, and the same string for two names that differ only in letter
\* case, punctuation or runs of whitespace, or only by an alias.
C24_PortNormalizationEquatesVariants ==
    /\ \A i \in CallsOf("_normalize_port_name") : IsText(calls[i].out)
    /\ \A i, j \in CallsOf("_normalize_port_name") :
           Disregarding(calls[i].args[1]) = Disregarding(calls[j].args[1])
               => calls[i].out = calls[j].out
    /\ AliasesEquated

\* C24 (amended): _normalize_port_name returns a string for every input,
\* None and "" included, and the same string for two names that are made of
\* the same words (runs of letters and digits, compared without case) in the
\* same order, whatever separates the words, or that differ only by an alias.
C24_PortNormalizationEquatesVariantsAmended ==
    /\ \A i \in CallsOf("_normalize_port_name") : IsText(calls[i].out)
    /\ \A i, j \in CallsOf("_normalize_port_name") :
           Words(calls[i].args[1]) = Words(calls[j].args[1])
               => calls[i].out = calls[j].out
    /\ AliasesEquated

\* "PORT CANAVERAL" and " Port  Canaveral " are one port
C24_Witness ==
    /\ Len(calls) = 2
    /\ calls[1].args[1] = T_PORT_CANAVERAL
    /\ calls[2].args[1] = T_PortCanaveralPadded
    /\ calls[1].out = T_port_canaveral
    /\ calls[2].out = T_port_canaveral

----------------------------------------------------------------------------
(* Properties of the zone resolution *)

\* the country code in the port code of a link to a port page
EmbeddedCode(port_link) ==
    IF \E p \in LinkParts : PortLink(p[1], p[2], p[3]) = port_link
    THEN LET p == CHOOSE q \in LinkParts : PortLink(q[1], q[2], q[3]) = port_link
         IN  SubSeq(p[2], 1, 2)
    ELSE <<>>

Mapped(cc) == \E e \in TZ_BY_PORT_PREFIX : e[1] = cc

\* the k-th needle is the first one that is part of the lower-cased name
FirstNeedle(port_name, k) ==
    /\ Contains(StrLower(port_name), PORT_TZ_MAP[k][1])
    /\ \A n \in 1..(k - 1) : ~Contains(StrLower(port_name), PORT_TZ_MAP[n][1])

\* C23: the display zone of a port is the zone of the country code in the
\* port link when TZ_BY_PORT_PREFIX has that code; otherwise the zone of the
\* first PORT_TZ_MAP entry whose needle is part of the lower-cased port name;
\* otherwise America/New_York; every name and link, empty ones included,
\* gets a zone.
C23_ZoneResolutionPriority ==
    \A i \in CallsOf("tz_local") :
        LET port_name == calls[i].args[1]
            cc == EmbeddedCode(calls[i].args[2])
            out == calls[i].out
        IN  /\ out \in TzDatabase
            /\ IF Mapped(cc)
               THEN \E e \in TZ_BY_PORT_PREFIX : e[1] = cc /\ out = e[2]
               ELSE IF \E k \in 1..Len(PORT_TZ_MAP) : FirstNeedle(port_name, k)
                    THEN \E k \in 1..Len(PORT_TZ_MAP) :
                            FirstNeedle(port_name, k) /\ out = PORT_TZ_MAP[k][2]
                    ELSE out = "America/New_York"

\* Galveston behind a link with the code US is Eastern, not Central
C23_Witness ==
    /\ Len(calls) = 1
    /\ calls[1].args[1] = <<"G", "a", "l", "v", "e", "s", "t", "o", "n">>
    /\ EmbeddedCode(calls[1].args[2]) = <<"U", "S">>
    /\ calls[1].out = "America/New_York"

----------------------------------------------------------------------------
(* Properties of the manual publish *)

\* C35: whatever the command-line arguments, publish_latest_all.main writes
\* only docs/latest-all.xml and, when --also-underscore is given,
\* docs/latest_all.xml; it writes neither docs/latest.xml nor state.json nor
\* a history file.
C35_ManualPublishTouchesOnlyLatestAll ==
    \A p \in DOMAIN files :
        files[p] # 0 =>
            \/ p = DOCS_DIR \o <<"latest-all.xml">>
            \/ /\ p = DOCS_DIR \o <<"latest_all.xml">>
               /\ calls[files[p]].args.also_underscore


----------------------------------------------------------------------------
(* Properties of the earlier scraper *)

\* C36: when a run of scrape.main has finished, every item whose guid the
\* run put in state["seen"] is in the feed written for its ship and in the
\* combined feed, however many new rows a ship had, and no feed written in
\* the run carries a guid that was in state["seen"] when the run started
C36_LegacyPublishesWhatItMarksSeen ==
    (legacy.pc = "idle" /\ legacy.runs > 0) =>
        /\ \A k \in DOMAIN legacy.ship_items :
               Range(legacy.ship_items[k]) \subseteq Range(legacy.docs[k])
        /\ Range(legacy.all_items) \subseteq Range(legacy.docs["all"])
        /\ {it.guid : it \in Range(legacy.all_items)} = legacy.saved \ legacy.loaded
        /\ \A k \in legacy.written :
               \A it \in Range(legacy.docs[k]) : it.guid \notin legacy.loaded

----------------------------------------------------------------------------
(* Properties of two runs going on together *)

\* both runs have returned from main() with their state saved
BothFinished ==
    /\ pc = "idle"
    /\ parked.pc = "idle"
    /\ outcome = "success"
    /\ parked.outcome = "success"

\* the guids a run put in canon_seen: what it holds beyond what it loaded
GuidsAcceptedBy(run) == run.state.canon_seen \ run.before.state.canon_seen

\* C34: when two runs of main() have both finished, however their steps were
\* interleaved, the canon_seen of state.json holds every guid either run
\* accepted, and the fence booleans of state.json are those of the sample
\* processed last
C34_NoLostUpdateBetweenOverlappingRuns ==
    BothFinished =>
        /\ (GuidsAcceptedBy(Locals) \cup GuidsAcceptedBy(parked))
               \subseteq disk.state.canon_seen
        /\ \A i \in 1..Len(ships) :
               SamplesOf(ships[i].slug) # <<>> =>
                   GetMap(disk.state.geo, ships[i].slug) =
                       SamplesOf(ships[i].slug)[Len(SamplesOf(ships[i].slug))].after

============================================================================
